---- MODULE Spec2Model ----
(***************************************************************************)
(* The UDP chat router of udpchat_pkg/udpchat/server.py (UDPChatServer)    *)
(* with the wire helpers of udpchat/protocol.py and the schema table of    *)
(* udpchat_pkg/udpchat/packet_spec.py.                                     *)
(*                                                                         *)
(* One router step (Process) is one iteration of _process_loop: dequeue,   *)
(* decode, validate, dispatch, with every send and disconnect the handler  *)
(* performs.  The receive thread (Recv) only appends to the queue.         *)
(***************************************************************************)
EXTENDS Naturals, Sequences, FiniteSets, Bags, TLC

VARIABLES
    clients,      \* self.clients: insertion-ordered dict addr -> ClientInfo
    rooms,        \* self.rooms: room name -> set of addr
    pending_inv,  \* self.pending_inv: addr -> set of room names
    recv_q,       \* self.recv_q: FIFO of <<data, addr>>
    running,      \* self.running (threading.Event)
    sock_open,    \* self.sock not yet closed
    router,       \* "loop" while _process_loop runs, else the exception that ended it
    recv_thread,  \* "loop" while _recv_loop runs, else "exited"
    sent,         \* bag of the sendto() calls of the last router step
    last,         \* history: the <<data, addr>> the last router step dequeued
    invited,      \* history: invitations recorded by an invite and not yet accepted
    script_pos,   \* history: how much of Script the router has processed so far
    dequeued,     \* history: number of recv_q.get() that returned, modulo Tickets
    tally,        \* history: per endpoint and room, the invites since the last accept
    codec,        \* protocol.py on its own: one make_packet / parse_packet call
    client,       \* a UDPChatClient: its fields, its two loops, its last step
    net           \* the datagrams in flight between that client and the server

server_vars == <<clients, rooms, pending_inv, recv_q, running, sock_open, router,
                 recv_thread, sent, last, invited, script_pos, dequeued, tally>>

vars == <<clients, rooms, pending_inv, recv_q, running, sock_open, router,
          recv_thread, sent, last, invited, script_pos, dequeued, tally,
                   codec, client,
          net>>

---------------------------------------------------------------------------
(* Universes of the model.                                                 *)

Endpoints == {"A", "B", "C"}
RoomNames == {"x"}
MaxQueue  == 1

(* The backlog the queue study lets build up, and the tickets that tell    *)
(* its datagrams apart: one more than can be queued at a time.             *)
MaxBacklog == MaxQueue + 1
Tickets    == MaxBacklog + 1

(* The nickname the client at each endpoint announces; C shares A's.       *)
NameAt(addr) == IF addr = "B" THEN "Bob" ELSE "Alice"

---------------------------------------------------------------------------
(* protocol.py: packet type identifiers.                                   *)

JOIN        == "join"
PUBLIC_MSG  == "msg"
QUIT        == "quit"
CREATE_ROOM == "create_room"
INVITE      == "invite"
ACCEPT_INV  == "accept_invite"
ROOM_MSG    == "room_msg"
SYSTEM_MSG  == "sys"

(* packet_spec.py: required fields per type.                               *)
EXPECTED_FIELDS_BY_TYPE ==
    (JOIN        :> {"type", "name"}) @@
    (PUBLIC_MSG  :> {"type", "name", "text"}) @@
    (QUIT        :> {"type", "name"}) @@
    (CREATE_ROOM :> {"type", "name", "room"}) @@
    (INVITE      :> {"type", "room", "from", "to"}) @@
    (ACCEPT_INV  :> {"type", "name", "room"}) @@
    (ROOM_MSG    :> {"type", "room", "from", "text"}) @@
    (SYSTEM_MSG  :> {"type", "text"})

---------------------------------------------------------------------------
(* JSON values.  Field values are JSON strings, written as TLA+ strings;   *)
(* JsonList stands for a non-empty JSON array, a value Python cannot hash. *)

JsonList == "<list>"
None     == "<None>"

Hashable(v) == v # JsonList
Truthy(v)   == v \notin {"", None}

EmptyDict == [k \in {} |-> {}]

(* json.dumps of a dict with the given items (in insertion order): the     *)
(* datagram is the text of a JSON object, a list of key/value pairs.       *)
json_dumps(items) == [kind |-> "object", pairs |-> items]

(* dict(...) of a JSON object text: for a repeated key the last pair wins. *)
LastIndex(pairs, k) ==
    CHOOSE i \in DOMAIN pairs :
        /\ pairs[i][1] = k
        /\ \A j \in DOMAIN pairs : pairs[j][1] = k => j <= i

json_loads(pairs) ==
    [k \in {pairs[i][1] : i \in DOMAIN pairs} |-> pairs[LastIndex(pairs, k)][2]]

(* payload["type"] = ptype on an insertion-ordered dict: an existing key   *)
(* keeps its place and gets the new value, a new key goes last.            *)
SetItem(items, k, v) ==
    IF \E i \in DOMAIN items : items[i][1] = k
    THEN [i \in DOMAIN items |-> IF items[i][1] = k THEN <<k, v>> ELSE items[i]]
    ELSE Append(items, <<k, v>>)

make_packet(ptype, payload) == json_dumps(SetItem(payload, "type", ptype))

(* The call make_packet(ptype, **payload): a keyword named like the        *)
(* positional parameter cannot be bound and the call raises TypeError.     *)
make_packet_call(ptype, payload) ==
    IF \E i \in DOMAIN payload : payload[i][1] = "ptype"
    THEN [exc |-> "TypeError", data |-> None]
    ELSE [exc |-> "none", data |-> make_packet(ptype, payload)]

(* parse_packet: json.loads(data.decode()).  exc names the exception       *)
(* raised, isdict tells a JSON object from any other JSON value.           *)
parse_packet(data) ==
    CASE data.kind = "bad_utf8" ->
             [exc |-> "UnicodeDecodeError", isdict |-> FALSE, val |-> EmptyDict]
      [] data.kind = "bad_json" ->
             [exc |-> "JSONDecodeError", isdict |-> FALSE, val |-> EmptyDict]
      [] data.kind = "json_value" ->
             [exc |-> "none", isdict |-> FALSE, val |-> EmptyDict]
      [] OTHER ->
             [exc |-> "none", isdict |-> TRUE, val |-> json_loads(data.pairs)]

(* dict.get(key, default)                                                  *)
get(pkt, k, default) == IF k \in DOMAIN pkt THEN pkt[k] ELSE default

---------------------------------------------------------------------------
(* The router's tables as one value S = [clients, rooms, pending_inv,      *)
(* sent, exc]; exc is "none" or the exception that escaped the handler.    *)

Registered(cl, addr) == \E i \in DOMAIN cl : cl[i].addr = addr

IndexOf(cl, addr) == CHOOSE i \in DOMAIN cl : cl[i].addr = addr

NameOf(cl, addr) == cl[IndexOf(cl, addr)].name

Addrs(cl) == [i \in DOMAIN cl |-> cl[i].addr]

Members(rm, room) == IF room \in DOMAIN rm THEN rm[room] ELSE {}

Pending(pi, addr) == IF addr \in DOMAIN pi THEN pi[addr] ELSE {}

Raise(S, e) == [S EXCEPT !.exc = e]

(* A disconnect that also forgets the invitations pending for addr.        *)
_disconnect_forgets(S, addr) ==
    IF ~Registered(S.clients, addr) THEN S
    ELSE [S EXCEPT
            !.clients = SelectSeq(S.clients, LAMBDA c : c.addr # addr),
            !.rooms   = [r \in DOMAIN S.rooms |-> S.rooms[r] \ {addr}],
            !.pending_inv = [e \in DOMAIN S.pending_inv |->
                                IF e = addr THEN {} ELSE S.pending_inv[e]]]

(* A disconnect that also deletes the rooms it leaves without members.     *)
_disconnect_gc(S, addr) ==
    IF ~Registered(S.clients, addr) THEN S
    ELSE [S EXCEPT
            !.clients = SelectSeq(S.clients, LAMBDA c : c.addr # addr),
            !.rooms   = [r \in {q \in DOMAIN S.rooms : S.rooms[q] \ {addr} # {}}
                            |-> S.rooms[r] \ {addr}]]

(* A disconnect that clears the member sets of an absent client too.       *)
_disconnect_sweeps(S, addr) ==
    [S EXCEPT
        !.clients = SelectSeq(S.clients, LAMBDA c : c.addr # addr),
        !.rooms   = [r \in DOMAIN S.rooms |-> S.rooms[r] \ {addr}]]

(* _disconnect: pop the client; nothing else happens if it was absent.     *)
_disconnect(S, addr) ==
    IF ~Registered(S.clients, addr) THEN S
    ELSE [S EXCEPT
            !.clients = SelectSeq(S.clients, LAMBDA c : c.addr # addr),
            !.rooms   = [r \in DOMAIN S.rooms |-> S.rooms[r] \ {addr}]]

(* A send that drops its target from the tables whether or not sendto()    *)
(* succeeded.                                                              *)
_send_drops(S, pkt, addr, fail) ==
    _disconnect([S EXCEPT !.sent = @ (+) SetToBag(
                    {[pkt |-> pkt, addr |-> addr, ok |-> addr \notin fail]})],
                addr)

(* _send: sendto(); an OSError (addr \in fail) disconnects the target.     *)
_send(S, pkt, addr, fail) ==
    LET T == [S EXCEPT !.sent = @ (+) SetToBag(
                  {[pkt |-> pkt, addr |-> addr, ok |-> addr \notin fail]})]
    IN  IF addr \in fail THEN _disconnect(T, addr) ELSE T

(* for a in list(...): if a != exclude: self._send(pkt, a)                 *)
RECURSIVE SendEach(_, _, _, _, _)
SendEach(S, pkt, addrs, exclude, fail) ==
    IF addrs = <<>> THEN S
    ELSE SendEach(IF Head(addrs) # exclude
                  THEN _send(S, pkt, Head(addrs), fail) ELSE S,
                  pkt, Tail(addrs), exclude, fail)

(* A snapshot of a set, in the (unspecified) order the set iterates.       *)
RECURSIVE ListOf(_)
ListOf(set) ==
    IF set = {} THEN <<>>
    ELSE LET m == CHOOSE m \in set : TRUE IN <<m>> \o ListOf(set \ {m})

(* A broadcast over the live registry: the first failed send changes the   *)
(* dict under the iteration and ends the loop.                             *)
RECURSIVE SendUntilLost(_, _, _, _, _)
SendUntilLost(S, pkt, addrs, exclude, fail) ==
    IF addrs = <<>> THEN S
    ELSE IF Head(addrs) = exclude
         THEN SendUntilLost(S, pkt, Tail(addrs), exclude, fail)
         ELSE IF Head(addrs) \in fail
              THEN _send(S, pkt, Head(addrs), fail)
              ELSE SendUntilLost(_send(S, pkt, Head(addrs), fail),
                                 pkt, Tail(addrs), exclude, fail)

_broadcast_live(S, pkt, exclude, fail) ==
    SendUntilLost(S, pkt, Addrs(S.clients), exclude, fail)

_broadcast(S, pkt, exclude, fail) ==
    SendEach(S, pkt, Addrs(S.clients), exclude, fail)

(* A validation that only looks the type up.                               *)
_validate_packet_lax(p) ==
    IF ~p.isdict THEN [exc |-> "AttributeError", val |-> FALSE]
    ELSE LET ptype == get(p.val, "type", None) IN
         IF ~Hashable(ptype) THEN [exc |-> "TypeError", val |-> FALSE]
         ELSE [exc |-> "none", val |-> ptype \in DOMAIN EXPECTED_FIELDS_BY_TYPE]

(* A server schema that wants a name in every packet.                      *)
_validate_packet_named(p) ==
    IF ~p.isdict THEN [exc |-> "AttributeError", val |-> FALSE]
    ELSE LET ptype == get(p.val, "type", None) IN
         IF ~Hashable(ptype) THEN [exc |-> "TypeError", val |-> FALSE]
         ELSE IF ptype \notin DOMAIN EXPECTED_FIELDS_BY_TYPE
              THEN [exc |-> "none", val |-> FALSE]
              ELSE [exc |-> "none",
                    val |-> (EXPECTED_FIELDS_BY_TYPE[ptype] \cup {"name"})
                                \subseteq DOMAIN p.val]

(* _validate_packet: val is the result, exc the exception raised instead.  *)
_validate_packet(p) ==
    IF ~p.isdict THEN [exc |-> "AttributeError", val |-> FALSE]
    ELSE LET ptype == get(p.val, "type", None) IN
         IF ~Hashable(ptype) THEN [exc |-> "TypeError", val |-> FALSE]
         ELSE IF ptype \notin DOMAIN EXPECTED_FIELDS_BY_TYPE
              THEN [exc |-> "none", val |-> FALSE]
              ELSE [exc |-> "none",
                    val |-> EXPECTED_FIELDS_BY_TYPE[ptype] \subseteq DOMAIN p.val]

---------------------------------------------------------------------------
(* Handlers.                                                               *)

(* A join that always adds a new entry.                                    *)
_handle_join_appends(S, pkt, addr) ==
    LET name == get(pkt, "name", "?") IN
    [S EXCEPT !.clients = Append(@, [addr |-> addr, name |-> name])]

_handle_join(S, pkt, addr) ==
    LET name == get(pkt, "name", "?") IN
    IF Registered(S.clients, addr)
    THEN [S EXCEPT !.clients[IndexOf(S.clients, addr)] =
                       [addr |-> addr, name |-> name]]
    ELSE [S EXCEPT !.clients = Append(@, [addr |-> addr, name |-> name])]

(* A public message that goes out under the name its packet claims.        *)
_handle_public_trusts(S, pkt, addr, fail) ==
    IF ~Registered(S.clients, addr) THEN S
    ELSE LET text == get(pkt, "text", "") IN
         _broadcast(S,
                    make_packet(PUBLIC_MSG,
                        <<<<"name", get(pkt, "name", None)>>, <<"text", text>>>>),
                    addr, fail)

(* A public message that is echoed to its sender as well.                  *)
_handle_public_echo(S, pkt, addr, fail) ==
    IF ~Registered(S.clients, addr) THEN S
    ELSE LET text == get(pkt, "text", "") IN
         _broadcast(S,
                    make_packet(PUBLIC_MSG,
                        <<<<"name", NameOf(S.clients, addr)>>, <<"text", text>>>>),
                    None, fail)

_handle_public(S, pkt, addr, fail) ==
    IF ~Registered(S.clients, addr) THEN S
    ELSE LET text == get(pkt, "text", "") IN
         _broadcast(S,
                    make_packet(PUBLIC_MSG,
                        <<<<"name", NameOf(S.clients, addr)>>, <<"text", text>>>>),
                    addr, fail)

(* A create_room that starts the room afresh with the caller alone.       *)
_handle_create_fresh(S, pkt, addr, fail) ==
    LET room == get(pkt, "room", None) IN
    IF ~Truthy(room) THEN S
    ELSE IF ~Hashable(room) THEN Raise(S, "TypeError")
    ELSE LET T == [S EXCEPT !.rooms = (room :> {addr}) @@ @]
         IN  IF ~Registered(T.clients, addr) THEN Raise(T, "KeyError")
             ELSE _send(T,
                        make_packet(SYSTEM_MSG,
                            <<<<"text", "Room '" \o room \o "' created">>>>),
                        addr, fail)

_handle_create(S, pkt, addr, fail) ==
    LET room == get(pkt, "room", None) IN
    IF ~Truthy(room) THEN S
    ELSE IF ~Hashable(room) THEN Raise(S, "TypeError")
    ELSE LET T == [S EXCEPT !.rooms =
                      (room :> (Members(S.rooms, room) \cup {addr})) @@ @]
         IN  IF ~Registered(T.clients, addr) THEN Raise(T, "KeyError")
             ELSE _send(T,
                        make_packet(SYSTEM_MSG,
                            <<<<"text", "Room '" \o room \o "' created">>>>),
                        addr, fail)

(* An invite that makes the invited endpoint a member at once.             *)
_handle_invite_enrols(S, pkt, addr, fail) ==
    LET room        == get(pkt, "room", None)
        target_name == get(pkt, "to", None)
    IN
    IF ~Hashable(room) THEN Raise(S, "TypeError")
    ELSE IF room \notin DOMAIN S.rooms \/ addr \notin S.rooms[room]
    THEN _send(S, make_packet(SYSTEM_MSG, <<<<"text", "You are not in that room">>>>),
               addr, fail)
    ELSE LET hits == {i \in DOMAIN S.clients : S.clients[i].name = target_name} IN
         IF hits = {}
         THEN _send(S, make_packet(SYSTEM_MSG, <<<<"text", "User not found">>>>),
                    addr, fail)
         ELSE LET first == CHOOSE i \in hits : \A j \in hits : i <= j
                  target_addr == S.clients[first].addr
                  T == [S EXCEPT !.rooms[room] = @ \cup {target_addr}]
              IN  IF ~Registered(T.clients, addr) THEN Raise(T, "KeyError")
                  ELSE _send(T,
                             make_packet(INVITE,
                                 <<<<"room", room>>,
                                   <<"from", NameOf(T.clients, addr)>>,
                                   <<"to", target_name>>>>),
                             target_addr, fail)

(* An invite that goes to the endpoint that took the name last.            *)
_handle_invite_last(S, pkt, addr, fail) ==
    LET room        == get(pkt, "room", None)
        target_name == get(pkt, "to", None)
    IN
    IF ~Hashable(room) THEN Raise(S, "TypeError")
    ELSE IF room \notin DOMAIN S.rooms \/ addr \notin S.rooms[room]
    THEN _send(S, make_packet(SYSTEM_MSG, <<<<"text", "You are not in that room">>>>),
               addr, fail)
    ELSE LET hits == {i \in DOMAIN S.clients : S.clients[i].name = target_name} IN
         IF hits = {}
         THEN _send(S, make_packet(SYSTEM_MSG, <<<<"text", "User not found">>>>),
                    addr, fail)
         ELSE LET final == CHOOSE i \in hits : \A j \in hits : i >= j
                  target_addr == S.clients[final].addr
                  T == [S EXCEPT !.pending_inv =
                           (target_addr :> (Pending(S.pending_inv, target_addr)
                                            \cup {room})) @@ @]
              IN  IF ~Registered(T.clients, addr) THEN Raise(T, "KeyError")
                  ELSE _send(T,
                             make_packet(INVITE,
                                 <<<<"room", room>>,
                                   <<"from", NameOf(T.clients, addr)>>,
                                   <<"to", target_name>>>>),
                             target_addr, fail)

(* An invite that any endpoint may issue for a room that exists.           *)
_handle_invite_open(S, pkt, addr, fail) ==
    LET room        == get(pkt, "room", None)
        target_name == get(pkt, "to", None)
    IN
    IF ~Hashable(room) THEN Raise(S, "TypeError")
    ELSE IF room \notin DOMAIN S.rooms
    THEN _send(S, make_packet(SYSTEM_MSG, <<<<"text", "You are not in that room">>>>),
               addr, fail)
    ELSE LET hits == {i \in DOMAIN S.clients : S.clients[i].name = target_name} IN
         IF hits = {}
         THEN _send(S, make_packet(SYSTEM_MSG, <<<<"text", "User not found">>>>),
                    addr, fail)
         ELSE LET first == CHOOSE i \in hits : \A j \in hits : i <= j
                  target_addr == S.clients[first].addr
                  T == [S EXCEPT !.pending_inv =
                           (target_addr :> (Pending(S.pending_inv, target_addr)
                                            \cup {room})) @@ @]
              IN  IF ~Registered(T.clients, addr) THEN Raise(T, "KeyError")
                  ELSE _send(T,
                             make_packet(INVITE,
                                 <<<<"room", room>>,
                                   <<"from", NameOf(T.clients, addr)>>,
                                   <<"to", target_name>>>>),
                             target_addr, fail)

_handle_invite(S, pkt, addr, fail) ==
    LET room        == get(pkt, "room", None)
        target_name == get(pkt, "to", None)
    IN
    IF ~Hashable(room) THEN Raise(S, "TypeError")
    ELSE IF room \notin DOMAIN S.rooms \/ addr \notin S.rooms[room]
    THEN _send(S, make_packet(SYSTEM_MSG, <<<<"text", "You are not in that room">>>>),
               addr, fail)
    ELSE LET hits == {i \in DOMAIN S.clients : S.clients[i].name = target_name} IN
         IF hits = {}
         THEN _send(S, make_packet(SYSTEM_MSG, <<<<"text", "User not found">>>>),
                    addr, fail)
         ELSE LET first == CHOOSE i \in hits : \A j \in hits : i <= j
                  target_addr == S.clients[first].addr
                  T == [S EXCEPT !.pending_inv =
                           (target_addr :> (Pending(S.pending_inv, target_addr)
                                            \cup {room})) @@ @]
              IN  IF ~Registered(T.clients, addr) THEN Raise(T, "KeyError")
                  ELSE _send(T,
                             make_packet(INVITE,
                                 <<<<"room", room>>,
                                   <<"from", NameOf(T.clients, addr)>>,
                                   <<"to", target_name>>>>),
                             target_addr, fail)

(* An accept that leaves the invitation pending.                           *)
_handle_accept_keeps(S, pkt, addr, fail) ==
    LET room == get(pkt, "room", None) IN
    IF ~Hashable(room) THEN Raise(S, "TypeError")
    ELSE IF room \in Pending(S.pending_inv, addr)
    THEN LET T == [S EXCEPT
                     !.rooms = (room :> (Members(S.rooms, room) \cup {addr})) @@ @]
         IN  _send(T,
                   make_packet(SYSTEM_MSG,
                       <<<<"text", "Joined room '" \o room \o "'">>>>),
                   addr, fail)
    ELSE _send(S, make_packet(SYSTEM_MSG, <<<<"text", "No invite for that room">>>>),
               addr, fail)

_handle_accept(S, pkt, addr, fail) ==
    LET room == get(pkt, "room", None) IN
    IF ~Hashable(room) THEN Raise(S, "TypeError")
    ELSE IF room \in Pending(S.pending_inv, addr)
    THEN LET T == [S EXCEPT
                     !.rooms = (room :> (Members(S.rooms, room) \cup {addr})) @@ @,
                     !.pending_inv[addr] = @ \ {room}]
         IN  _send(T,
                   make_packet(SYSTEM_MSG,
                       <<<<"text", "Joined room '" \o room \o "'">>>>),
                   addr, fail)
    ELSE _send(S, make_packet(SYSTEM_MSG, <<<<"text", "No invite for that room">>>>),
               addr, fail)

(* A room_msg check that only asks whether the room exists.                *)
_handle_room_msg_open(S, pkt, addr, fail) ==
    LET room == get(pkt, "room", None)
        text == get(pkt, "text", "")
    IN
    IF ~Hashable(room) THEN Raise(S, "TypeError")
    ELSE IF room \notin DOMAIN S.rooms
    THEN _send(S, make_packet(SYSTEM_MSG, <<<<"text", "You are not in that room">>>>),
               addr, fail)
    ELSE IF ~Registered(S.clients, addr) THEN Raise(S, "KeyError")
    ELSE SendEach(S,
                  make_packet(ROOM_MSG,
                      <<<<"room", room>>, <<"text", text>>,
                        <<"from", NameOf(S.clients, addr)>>>>),
                  ListOf(S.rooms[room]), addr, fail)

(* A room_msg that is delivered to its sender as well.                     *)
_handle_room_msg_echo(S, pkt, addr, fail) ==
    LET room == get(pkt, "room", None)
        text == get(pkt, "text", "")
    IN
    IF ~Hashable(room) THEN Raise(S, "TypeError")
    ELSE IF room \notin DOMAIN S.rooms \/ addr \notin S.rooms[room]
    THEN _send(S, make_packet(SYSTEM_MSG, <<<<"text", "You are not in that room">>>>),
               addr, fail)
    ELSE IF ~Registered(S.clients, addr) THEN Raise(S, "KeyError")
    ELSE SendEach(S,
                  make_packet(ROOM_MSG,
                      <<<<"room", room>>, <<"text", text>>,
                        <<"from", NameOf(S.clients, addr)>>>>),
                  ListOf(S.rooms[room]), None, fail)

(* A room_msg delivered over the live member set: the first failed send    *)
(* changes the set under the iteration and ends it.                        *)
_handle_room_msg_live(S, pkt, addr, fail) ==
    LET room == get(pkt, "room", None)
        text == get(pkt, "text", "")
    IN
    IF ~Hashable(room) THEN Raise(S, "TypeError")
    ELSE IF room \notin DOMAIN S.rooms \/ addr \notin S.rooms[room]
    THEN _send(S, make_packet(SYSTEM_MSG, <<<<"text", "You are not in that room">>>>),
               addr, fail)
    ELSE IF ~Registered(S.clients, addr) THEN Raise(S, "KeyError")
    ELSE SendUntilLost(S,
                       make_packet(ROOM_MSG,
                           <<<<"room", room>>, <<"text", text>>,
                             <<"from", NameOf(S.clients, addr)>>>>),
                       ListOf(S.rooms[room]), addr, fail)

_handle_room_msg(S, pkt, addr, fail) ==
    LET room == get(pkt, "room", None)
        text == get(pkt, "text", "")
    IN
    IF ~Hashable(room) THEN Raise(S, "TypeError")
    ELSE IF room \notin DOMAIN S.rooms \/ addr \notin S.rooms[room]
    THEN _send(S, make_packet(SYSTEM_MSG, <<<<"text", "You are not in that room">>>>),
               addr, fail)
    ELSE IF ~Registered(S.clients, addr) THEN Raise(S, "KeyError")
    ELSE SendEach(S,
                  make_packet(ROOM_MSG,
                      <<<<"room", room>>, <<"text", text>>,
                        <<"from", NameOf(S.clients, addr)>>>>),
                  ListOf(S.rooms[room]), addr, fail)

(* A router that answers a packet it has no handler for.                   *)
_process_loop_replies(S, data, addr, fail) ==
    LET p == parse_packet(data) IN
    IF p.exc = "JSONDecodeError" THEN S
    ELSE IF p.exc # "none" THEN Raise(S, p.exc)
    ELSE LET v == _validate_packet(p) IN
         IF v.exc # "none" THEN Raise(S, v.exc)
         ELSE IF ~v.val THEN S
         ELSE LET pkt == p.val  ptype == p.val["type"] IN
              CASE ptype = JOIN        -> _handle_join(S, pkt, addr)
                [] ptype = PUBLIC_MSG  -> _handle_public(S, pkt, addr, fail)
                [] ptype = QUIT        -> _disconnect(S, addr)
                [] ptype = CREATE_ROOM -> _handle_create(S, pkt, addr, fail)
                [] ptype = INVITE      -> _handle_invite(S, pkt, addr, fail)
                [] ptype = ACCEPT_INV  -> _handle_accept(S, pkt, addr, fail)
                [] ptype = ROOM_MSG    -> _handle_room_msg(S, pkt, addr, fail)
                [] OTHER               ->
                       _send(S, make_packet(SYSTEM_MSG,
                                    <<<<"text", "Unknown packet type">>>>),
                             addr, fail)

(* The body of one iteration of _process_loop, after the dequeue.          *)
_process_loop(S, data, addr, fail) ==
    LET p == parse_packet(data) IN
    IF p.exc = "JSONDecodeError" THEN S
    ELSE IF p.exc # "none" THEN Raise(S, p.exc)
    ELSE LET v == _validate_packet(p) IN
         IF v.exc # "none" THEN Raise(S, v.exc)
         ELSE IF ~v.val THEN S
         ELSE LET pkt == p.val  ptype == p.val["type"] IN
              CASE ptype = JOIN        -> _handle_join(S, pkt, addr)
                [] ptype = PUBLIC_MSG  -> _handle_public(S, pkt, addr, fail)
                [] ptype = QUIT        -> _disconnect(S, addr)
                [] ptype = CREATE_ROOM -> _handle_create(S, pkt, addr, fail)
                [] ptype = INVITE      -> _handle_invite(S, pkt, addr, fail)
                [] ptype = ACCEPT_INV  -> _handle_accept(S, pkt, addr, fail)
                [] ptype = ROOM_MSG    -> _handle_room_msg(S, pkt, addr, fail)
                [] OTHER               -> S

---------------------------------------------------------------------------
(* Datagrams on the wire.  The packets a client builds (client.py) ...     *)

JoinPkt(name)             == make_packet(JOIN, <<<<"name", name>>>>)
MsgPkt(name, text)        == make_packet(PUBLIC_MSG, <<<<"name", name>>, <<"text", text>>>>)
QuitPkt(name)             == make_packet(QUIT, <<<<"name", name>>>>)
CreatePkt(name, room)     == make_packet(CREATE_ROOM, <<<<"name", name>>, <<"room", room>>>>)
InvitePkt(room, from, to) ==
    make_packet(INVITE, <<<<"room", room>>, <<"from", from>>, <<"to", to>>>>)
AcceptPkt(name, room)     == make_packet(ACCEPT_INV, <<<<"name", name>>, <<"room", room>>>>)
RoomMsgPkt(room, from, text) ==
    make_packet(ROOM_MSG, <<<<"room", room>>, <<"from", from>>, <<"text", text>>>>)

(* ... and what any other sender may put in a datagram.                    *)
BadJson   == [kind |-> "bad_json", pairs |-> <<>>]
BadUtf8   == [kind |-> "bad_utf8", pairs |-> <<>>]
JsonValue == [kind |-> "json_value", pairs |-> <<>>]

(* The room protocol between the clients at A and B.                       *)
Other(a) == IF a = "A" THEN "B" ELSE "A"

RoomTraffic ==
    UNION {{<<JoinPkt(NameAt(a)), a>>,
            <<QuitPkt(NameAt(a)), a>>,
            <<CreatePkt(NameAt(a), "x"), a>>,
            <<InvitePkt("x", NameAt(a), NameAt(Other(a))), a>>,
            <<AcceptPkt(NameAt(a), "x"), a>>,
            <<RoomMsgPkt("x", NameAt(a), "hi"), a>>} : a \in {"A", "B"}}

(* The public lobby between three clients.                                 *)
LobbyTraffic ==
    UNION {{<<JoinPkt(NameAt(a)), a>>,
            <<MsgPkt(NameAt(a), "hi"), a>>,
            <<QuitPkt(NameAt(a)), a>>} : a \in Endpoints}

(* One sender that puts anything on the wire.                              *)
WireTraffic ==
    {<<d, "A">> : d \in
        {JoinPkt("Alice"), MsgPkt("Alice", "hi"), QuitPkt("Alice"),
         CreatePkt("Alice", "x"), CreatePkt("Alice", ""), CreatePkt("Alice", JsonList),
         InvitePkt("x", "Alice", "Alice"), InvitePkt(JsonList, "Alice", "Alice"),
         AcceptPkt("Alice", "x"), AcceptPkt("Alice", JsonList),
         RoomMsgPkt("x", "Alice", "hi"), RoomMsgPkt(JsonList, "Alice", "hi"),
         make_packet(SYSTEM_MSG, <<<<"text", "hi">>>>),
         make_packet("ping", <<>>),
         make_packet(PUBLIC_MSG, <<<<"name", "Alice">>>>),
         make_packet(ACCEPT_INV, <<<<"room", "x">>>>),
         json_dumps(<<<<"name", "Alice">>>>),
         json_dumps(<<<<"type", JsonList>>>>),
         BadJson, BadUtf8, JsonValue,
         JoinPkt("Al")}}

(* Two clients in the lobby and a datagram that is not UTF-8, for the      *)
(* study of the queue.                                                     *)
QueueTraffic ==
    {<<JoinPkt("Alice"), "A">>, <<MsgPkt("Alice", "hi"), "A">>,
     <<JoinPkt("Bob"), "B">>, <<BadUtf8, "B">>}

(* Endpoints A and C both go by the name Alice; B and A create room x and  *)
(* invite "Alice"; A can quit and join again, which moves it behind C in   *)
(* the registry.                                                           *)
SharedNameTraffic ==
    {<<JoinPkt("Alice"), "A">>, <<JoinPkt("Alice"), "C">>,
     <<JoinPkt("Bob"), "B">>, <<QuitPkt("Alice"), "A">>,
     <<CreatePkt("Bob", "x"), "B">>, <<CreatePkt("Alice", "x"), "A">>,
     <<InvitePkt("x", "Bob", "Alice"), "B">>,
     <<InvitePkt("x", "Alice", "Alice"), "A">>}

(* Three clients that share one room: join, create_room x, room_msg.       *)
DeliveryTraffic ==
    UNION {{<<JoinPkt(NameAt(a)), a>>,
            <<CreatePkt(NameAt(a), "x"), a>>,
            <<RoomMsgPkt("x", NameAt(a), "hi"), a>>} : a \in Endpoints}

(* Alice at A signs her packets with either name, her own or Bob's; Bob at *)
(* B joins and enters the room.                                            *)
IdentityTraffic ==
    UNION {{<<JoinPkt(NameAt(a)), a>>,
            <<CreatePkt(NameAt(a), "x"), a>>} : a \in {"A", "B"}}
    \cup UNION {{<<MsgPkt(n, "hi"), "A">>,
                 <<InvitePkt("x", n, "Bob"), "A">>,
                 <<RoomMsgPkt("x", n, "hi"), "A">>} : n \in {"Alice", "Bob"}}

(* Alice at A creates x and invites Bob, as often as she likes; Bob at B   *)
(* accepts, as often as he likes, and may leave.                           *)
PendingTraffic ==
    {<<JoinPkt("Alice"), "A">>, <<JoinPkt("Bob"), "B">>,
     <<CreatePkt("Alice", "x"), "A">>,
     <<InvitePkt("x", "Alice", "Bob"), "A">>,
     <<AcceptPkt("Bob", "x"), "B">>,
     <<QuitPkt("Bob"), "B">>}

(* The walk-through of the room protocol: Alice at A, Bob at B.            *)
Script ==
    << <<JoinPkt("Alice"), "A">>,
       <<JoinPkt("Bob"), "B">>,
       <<CreatePkt("Alice", "x"), "A">>,
       <<InvitePkt("x", "Alice", "Bob"), "A">>,
       <<AcceptPkt("Bob", "x"), "B">>,
       <<RoomMsgPkt("x", "Alice", "hi"), "A">> >>

OffScript == Len(Script) + 1

Peers(inbound) == {m[2] : m \in inbound}

---------------------------------------------------------------------------
(* The state machine.                                                      *)

(* Values of the variables of a part that is not running.                  *)
NotCounted == Tickets
NoTally    == <<>>
NoCodec    == [stage |-> "idle"]
NoClient   == [main |-> "none"]
NoNet      == [on |-> FALSE, up |-> <<>>, down |-> <<>>]

(* The endpoint of the client and the number of datagrams that fit into a  *)
(* socket buffer; a datagram that does not fit is lost.                    *)
ClientAddr == "A"
MaxNet     == 1

Buffered(buf, pkts) ==
    IF pkts # <<>> /\ Len(buf) < MaxNet THEN Append(buf, Head(pkts)) ELSE buf

(* sendto() of the client: the datagram of out that the socket took is in  *)
(* flight to the server.                                                   *)
Uplink(n, out) ==
    IF ~n.on THEN n
    ELSE [n EXCEPT !.up = Buffered(@, SelectSeq(out, LAMBDA m : m.ok))]

(* sendto() of the server: of the packets of a router step, the one for    *)
(* the client that the socket took is in flight to the client.             *)
Downlink(n, bag) ==
    IF ~n.on THEN n
    ELSE LET mine == {m \in BagToSet(bag) : m.addr = ClientAddr /\ m.ok} IN
         IF mine = {} THEN n
         ELSE [n EXCEPT !.down = Buffered(@, <<CHOOSE m \in mine : TRUE>>)]

ServerInit ==
    /\ clients = <<>>
    /\ rooms = EmptyDict
    /\ pending_inv = EmptyDict
    /\ recv_q = <<>>
    /\ running = TRUE
    /\ sock_open = TRUE
    /\ router = "loop"
    /\ recv_thread = "loop"
    /\ sent = EmptyBag
    /\ last = <<>>
    /\ invited = [e \in Endpoints |-> {}]
    /\ script_pos = 0

Init ==
    /\ ServerInit
    /\ dequeued = NotCounted
    /\ tally = NoTally
    /\ codec = NoCodec
    /\ client = NoClient
    /\ net = NoNet

(* A put that jumps the queue.                                             *)
put_first(q, item) == <<item>> \o q

(* queue.Queue.put                                                         *)
put(q, item) == Append(q, item)

(* A receive loop that registers the sender itself.                        *)
RecvUpTo_registers(inbound, cap) ==
    /\ recv_thread = "loop"
    /\ running
    /\ sock_open
    /\ Len(recv_q) < cap
    /\ \E m \in inbound :
         /\ recv_q' = put(recv_q, m)
         /\ clients' = IF Registered(clients, m[2]) THEN clients
                        ELSE Append(clients,
                                    [addr |-> m[2], name |-> NameAt(m[2])])
    /\ UNCHANGED <<rooms, pending_inv, running, sock_open, router,
                   recv_thread, sent, last, invited, script_pos, dequeued, tally,
                   
                   codec, client, net>>

(* _recv_loop: recvfrom() returned a datagram; put it on the queue.  The   *)
(* backlog is capped at cap datagrams.                                     *)
RecvUpTo(inbound, cap) ==
    /\ recv_thread = "loop"
    /\ running
    /\ sock_open
    /\ Len(recv_q) < cap
    /\ \E m \in inbound : recv_q' = put(recv_q, m)
    /\ UNCHANGED <<clients, rooms, pending_inv, running, sock_open, router,
                   recv_thread, sent, last, invited, script_pos, dequeued, tally,
                   
                   codec, client, net>>

Recv(inbound) == RecvUpTo(inbound, MaxQueue)

(* A receive loop that ends only once the queue has been drained.          *)
RecvExit_drains ==
    /\ recv_thread = "loop"
    /\ ~running \/ ~sock_open
    /\ recv_q = <<>>
    /\ recv_thread' = "exited"
    /\ UNCHANGED <<clients, rooms, pending_inv, recv_q, running, sock_open,
                   router, sent, last, invited, script_pos, dequeued, tally,
                   codec,
                   client, net>>

(* _recv_loop: the flag is cleared or recvfrom() raises OSError.           *)
RecvExit ==
    /\ recv_thread = "loop"
    /\ ~running \/ ~sock_open
    /\ recv_thread' = "exited"
    /\ UNCHANGED <<clients, rooms, pending_inv, recv_q, running, sock_open,
                   router, sent, last, invited, script_pos, dequeued, tally,
                   codec,
                   client, net>>

Field(m, k) == get(parse_packet(m.pkt).val, k, None)

(* The invitations a step records (an invite packet went out) and uses up  *)
(* (a "Joined room" acknowledgement went out).                             *)
InvitedAfter(out, data, addr) ==
    LET p    == parse_packet(data)
        room == get(p.val, "room", None)
    IN
    [e \in Endpoints |->
        IF \E m \in BagToSet(out) : Field(m, "type") = INVITE /\ m.addr = e
        THEN invited[e] \cup {room}
        ELSE IF /\ e = addr
                /\ get(p.val, "type", None) = ACCEPT_INV
                /\ \E m \in BagToSet(out) :
                       /\ Field(m, "type") = SYSTEM_MSG
                       /\ Field(m, "text") = "Joined room '" \o room \o "'"
             THEN invited[e] \ {room}
             ELSE invited[e]]

(* The next position in Script when the step processed the datagram the    *)
(* script has there and every send of the step succeeded; off it for good  *)
(* otherwise.                                                              *)
ScriptAfter(out, m) ==
    IF /\ script_pos < Len(Script)
       /\ m = Script[script_pos + 1]
       /\ \A n \in BagToSet(out) : n.ok
    THEN script_pos + 1
    ELSE OffScript

(* The invites a step adds to the tally and the ones it uses up: an invite *)
(* that gets as far as recording the room counts for its target (up to     *)
(* MaxInvites), an accept_invite of a pending room sets the sender's count *)
(* to zero and remembers in took how many invites it used up.              *)
MaxInvites == 2

NoInvites == [e \in Endpoints |-> [r \in RoomNames |-> [n |-> 0, took |-> 0]]]

TallyAfter(data, addr) ==
    LET p    == parse_packet(data)
        t    == get(p.val, "type", None)
        room == get(p.val, "room", None)
        to   == get(p.val, "to", None)
        hits == {i \in DOMAIN clients : clients[i].name = to}
    IN
    IF ~p.isdict \/ room \notin RoomNames THEN tally
    ELSE IF t = INVITE /\ "to" \in DOMAIN p.val /\ "from" \in DOMAIN p.val
            /\ addr \in Members(rooms, room) /\ hits # {}
    THEN LET target == clients[CHOOSE i \in hits : \A j \in hits : i <= j].addr IN
         [tally EXCEPT ![target][room].n = IF @ < MaxInvites THEN @ + 1 ELSE @]
    ELSE IF t = ACCEPT_INV /\ "name" \in DOMAIN p.val
            /\ room \in Pending(pending_inv, addr)
    THEN [tally EXCEPT ![addr][room] = [n |-> 0, took |-> tally[addr][room].n]]
    ELSE tally

(* _process_loop: one dequeued datagram; an exception that escapes ends    *)
(* the loop and start() clears the flag and closes the socket.             *)
Process(peers) ==
    /\ router = "loop"
    /\ running
    /\ recv_q # <<>>
    /\ \E fail \in SUBSET peers :
         LET data == Head(recv_q)[1]
             addr == Head(recv_q)[2]
         IN  \E S \in {_process_loop([clients |-> clients, rooms |-> rooms,
                                      pending_inv |-> pending_inv,
                                      sent |-> EmptyBag, exc |-> "none"],
                                     data, addr, fail)} :
             /\ clients' = S.clients
             /\ rooms' = S.rooms
             /\ pending_inv' = S.pending_inv
             /\ sent' = S.sent
             /\ net' = Downlink(net, S.sent)
             /\ invited' = InvitedAfter(S.sent, data, addr)
             /\ script_pos' = ScriptAfter(S.sent, Head(recv_q))
             /\ router' = IF S.exc = "none" THEN "loop" ELSE S.exc
             /\ running' = (S.exc = "none")
             /\ sock_open' = (S.exc = "none")
    /\ last' = Head(recv_q)
    /\ recv_q' = Tail(recv_q)
    /\ dequeued' = IF dequeued = NotCounted THEN NotCounted
                   ELSE (dequeued + 1) % Tickets
    /\ tally' = IF tally = NoTally THEN NoTally
                ELSE TallyAfter(Head(recv_q)[1], Head(recv_q)[2])
    /\ UNCHANGED <<recv_thread, codec, client>>

(* start(): KeyboardInterrupt in the main thread.                          *)
Shutdown ==
    /\ router = "loop"
    /\ router' = "KeyboardInterrupt"
    /\ running' = FALSE
    /\ sock_open' = FALSE
    /\ UNCHANGED <<clients, rooms, pending_inv, recv_q, recv_thread, sent, last,
                   invited, script_pos, dequeued, tally, codec, client, net>>

---------------------------------------------------------------------------
(* protocol.py on its own: a call of make_packet with a type and a payload *)
(* followed by parse_packet of its result, or parse_packet of raw bytes.   *)

Payloads ==
    {<<>>,
     <<<<"name", "Alice">>>>,
     <<<<"name", "Alice">>, <<"text", "hi">>>>,
     <<<<"text", "">>, <<"name", "Bob">>>>,
     <<<<"type", "x">>, <<"name", "Alice">>>>,
     <<<<"name", "Alice">>, <<"type", "join">>, <<"room", "x">>>>,
     <<<<"room", "x">>, <<"from", "Alice">>, <<"to", "Bob">>>>,
     <<<<"room", JsonList>>, <<"extra", "1">>>>,
     <<<<"ptype", "x">>>>,
     <<<<"name", "Alice">>, <<"ptype", "join">>>>}

CodecInputs ==
    {[stage |-> "args", ptype |-> t, payload |-> pl] :
        t \in (DOMAIN EXPECTED_FIELDS_BY_TYPE) \cup {"ping"}, pl \in Payloads}
    \cup {[stage |-> "bytes", data |-> d] : d \in {BadJson, BadUtf8, JsonValue}}

CodecInit ==
    /\ ServerInit
    /\ dequeued = NotCounted
    /\ tally = NoTally
    /\ client = NoClient
    /\ net = NoNet
    /\ codec \in CodecInputs

Encode ==
    /\ codec.stage = "args"
    /\ LET r == make_packet_call(codec.ptype, codec.payload) IN
       codec' = IF r.exc # "none"
                THEN [stage |-> "raised", ptype |-> codec.ptype,
                      payload |-> codec.payload, exc |-> r.exc]
                ELSE [stage |-> "encoded", ptype |-> codec.ptype,
                      payload |-> codec.payload, data |-> r.data]
    /\ UNCHANGED <<server_vars, client, net>>

Decode ==
    /\ codec.stage \in {"encoded", "bytes"}
    /\ codec' = [stage |-> "decoded", input |-> codec,
                 result |-> parse_packet(codec.data)]
    /\ UNCHANGED <<server_vars, client, net>>

NextCodec == Encode \/ Decode

SpecCodec == CodecInit /\ [][NextCodec]_vars

---------------------------------------------------------------------------
(* client.py.  A line of input is a sequence of tokens: the slash "/", a   *)
(* space " ", a double quote, or a word; the line is their concatenation.  *)

Quote == "\""

RECURSIVE Cat(_)
Cat(toks) == IF toks = <<>> THEN "" ELSE Head(toks) \o Cat(Tail(toks))

(* str.lower, token by token.                                              *)
LowerToken(w) ==
    CASE w = "Exit"   -> "exit"
      [] w = "END"    -> "end"
      [] w = "QQQ"    -> "qqq"
      [] w = "Quit"   -> "quit"
      [] w = "Create" -> "create"
      [] w = "Bob"    -> "bob"
      [] OTHER        -> w

lower(toks) == [i \in DOMAIN toks |-> LowerToken(toks[i])]

(* str.strip                                                               *)
RECURSIVE lstrip(_)
lstrip(toks) ==
    IF toks # <<>> /\ Head(toks) = " " THEN lstrip(Tail(toks)) ELSE toks

RECURSIVE rstrip(_)
rstrip(toks) ==
    IF toks # <<>> /\ toks[Len(toks)] = " "
    THEN rstrip(SubSeq(toks, 1, Len(toks) - 1))
    ELSE toks

strip(toks) == rstrip(lstrip(toks))

startswith(toks, prefix) == toks # <<>> /\ Head(toks) = prefix

(* shlex.split: spaces separate the arguments, a pair of double quotes     *)
(* keeps what it encloses (possibly nothing) as part of one argument, and  *)
(* an unmatched quote raises ValueError.  cur is the argument being read,  *)
(* open tells that one is being read, inq that a quote is open.            *)
RECURSIVE Lex(_, _, _, _, _)
Lex(rest, cur, open, inq, out) ==
    IF rest = <<>>
    THEN IF inq THEN [exc |-> "ValueError", val |-> <<>>]
         ELSE [exc |-> "none", val |-> IF open THEN Append(out, cur) ELSE out]
    ELSE LET t == Head(rest) IN
         IF inq
         THEN IF t = Quote THEN Lex(Tail(rest), cur, TRUE, FALSE, out)
              ELSE Lex(Tail(rest), Append(cur, t), TRUE, TRUE, out)
         ELSE IF t = Quote THEN Lex(Tail(rest), cur, TRUE, TRUE, out)
         ELSE IF t = " "
              THEN IF open THEN Lex(Tail(rest), <<>>, FALSE, FALSE, Append(out, cur))
                   ELSE Lex(Tail(rest), <<>>, FALSE, FALSE, out)
         ELSE Lex(Tail(rest), Append(cur, t), TRUE, FALSE, out)

shlex_split(toks) == Lex(toks, <<>>, FALSE, FALSE, <<>>)

(* " ".join(words)                                                         *)
RECURSIVE JoinSpace(_)
JoinSpace(words) ==
    IF words = <<>> THEN ""
    ELSE IF Len(words) = 1 THEN words[1]
    ELSE words[1] \o " " \o JoinSpace(Tail(words))

(* UDPChatClient._validate_packet                                          *)
Client_validate_packet(p) ==
    IF ~p.isdict THEN [exc |-> "AttributeError", val |-> FALSE]
    ELSE LET ptype == get(p.val, "type", None) IN
         IF ~Hashable(ptype) THEN [exc |-> "TypeError", val |-> FALSE]
         ELSE IF ptype \notin DOMAIN EXPECTED_FIELDS_BY_TYPE
              THEN [exc |-> "none", val |-> FALSE]
              ELSE [exc |-> "none",
                    val |-> EXPECTED_FIELDS_BY_TYPE[ptype] \subseteq DOMAIN p.val]

(* UDPChatClient._send: the packet is handed to sendto; when sendto raises *)
(* OSError (fail) the shutdown flag is cleared.                            *)
Client_send(K, pkt, fail) ==
    IF ~Client_validate_packet(parse_packet(pkt)).val THEN K
    ELSE IF fail
         THEN [K EXCEPT !.out = Append(@, [pkt |-> pkt, ok |-> FALSE]),
                        !.running = FALSE]
         ELSE [K EXCEPT !.out = Append(@, [pkt |-> pkt, ok |-> TRUE])]

(* A /create that leaves the local view alone until the server answers.    *)
Client_create_waits(K, room, fail) ==
    Client_send(K, make_packet(CREATE_ROOM,
                               <<<<"name", K.name>>, <<"room", room>>>>), fail)

(* A /create that enters the room without adding it to the local rooms.    *)
Client_create_visits(K, room, fail) ==
    [Client_send(K, make_packet(CREATE_ROOM,
                                <<<<"name", K.name>>, <<"room", room>>>>), fail)
        EXCEPT !.current_room = room]

(* _handle_command, case "/create"                                         *)
Client_create(K, room, fail) ==
    [Client_send(K, make_packet(CREATE_ROOM,
                                <<<<"name", K.name>>, <<"room", room>>>>), fail)
        EXCEPT !.rooms = @ \cup {room}, !.current_room = room]

(* _handle_command, case "/invite"                                         *)
Client_invite(K, room, user, fail) ==
    Client_send(K, make_packet(INVITE, <<<<"room", room>>, <<"from", K.name>>,
                                         <<"to", user>>>>), fail)

(* _handle_command, case "/accept"                                         *)
Client_accept(K, room, fail) ==
    IF room \notin K.pending_inv THEN K
    ELSE [Client_send(K, make_packet(ACCEPT_INV,
                                     <<<<"name", K.name>>, <<"room", room>>>>), fail)
             EXCEPT !.pending_inv = @ \ {room},
                    !.rooms = @ \cup {room},
                    !.current_room = room]

(* _handle_command, case "/room"                                           *)
Client_room(K, room, msg_text, fail) ==
    IF room \notin K.rooms THEN K
    ELSE Client_send(K, make_packet(ROOM_MSG, <<<<"room", room>>, <<"from", K.name>>,
                                               <<"text", msg_text>>>>), fail)

(* UDPChatClient._handle_command                                           *)
_handle_command(K, line, fail) ==
    LET sp == shlex_split(line) IN
    IF sp.exc # "none" THEN K
    ELSE LET cmd  == Cat(lower(sp.val[1]))
             args == [i \in 1..(Len(sp.val) - 1) |-> Cat(sp.val[i + 1])]
         IN
         CASE cmd = "/create" ->
                  IF Len(args) # 1 THEN K ELSE Client_create(K, args[1], fail)
           [] cmd = "/invite" ->
                  IF Len(args) # 2 THEN K
                  ELSE Client_invite(K, args[1], args[2], fail)
           [] cmd = "/accept" ->
                  IF Len(args) # 1 THEN K ELSE Client_accept(K, args[1], fail)
           [] cmd = "/room" ->
                  IF Len(args) < 2 THEN K
                  ELSE Client_room(K, args[1], JoinSpace(Tail(args)), fail)
           [] OTHER -> K

(* UDPChatClient.start: the body of the input loop for one line.  left     *)
(* tells that the loop was left by break.                                  *)
_input_line(K, line, fail) ==
    IF Truthy(K.current_room) /\ Cat(lower(strip(line))) \in {"exit", "end"}
    THEN [K EXCEPT !.current_room = None]
    ELSE IF Cat(lower(line)) \in {"/quit", "qqq"}
    THEN [Client_send(K, make_packet(QUIT, <<<<"name", K.name>>>>), fail)
             EXCEPT !.left = TRUE]
    ELSE IF startswith(line, "/") THEN _handle_command(K, line, fail)
    ELSE IF Truthy(K.current_room)
    THEN Client_send(K, make_packet(ROOM_MSG,
                        <<<<"room", K.current_room>>, <<"from", K.name>>,
                          <<"text", Cat(line)>>>>), fail)
    ELSE Client_send(K, make_packet(PUBLIC_MSG,
                        <<<<"name", K.name>>, <<"text", Cat(line)>>>>), fail)

(* A receive loop that only displays what arrives.                         *)
Client_recv_loop_prints(K, data) ==
    LET p == parse_packet(data) IN
    IF p.exc = "JSONDecodeError" THEN [K EXCEPT !.recv = "exited"]
    ELSE IF p.exc # "none" THEN [K EXCEPT !.recv = p.exc]
    ELSE LET v == Client_validate_packet(p) IN
         IF v.exc # "none" THEN [K EXCEPT !.recv = v.exc]
         ELSE K

(* A receive loop that also enters the room of an invitation.              *)
Client_recv_loop_enters(K, data) ==
    LET p == parse_packet(data) IN
    IF p.exc = "JSONDecodeError" THEN [K EXCEPT !.recv = "exited"]
    ELSE IF p.exc # "none" THEN [K EXCEPT !.recv = p.exc]
    ELSE LET v == Client_validate_packet(p) IN
         IF v.exc # "none" THEN [K EXCEPT !.recv = v.exc]
         ELSE IF ~v.val THEN K
         ELSE IF p.val["type"] = INVITE
              THEN IF ~Hashable(p.val["room"]) THEN [K EXCEPT !.recv = "TypeError"]
                   ELSE [K EXCEPT !.pending_inv = @ \cup {p.val["room"]},
                                  !.current_room = p.val["room"]]
         ELSE K

(* UDPChatClient._recv_loop: one datagram.  recv becomes "exited" on       *)
(* break and the name of the exception when one escapes the thread.        *)
Client_recv_loop(K, data) ==
    LET p == parse_packet(data) IN
    IF p.exc = "JSONDecodeError" THEN [K EXCEPT !.recv = "exited"]
    ELSE IF p.exc # "none" THEN [K EXCEPT !.recv = p.exc]
    ELSE LET v == Client_validate_packet(p) IN
         IF v.exc # "none" THEN [K EXCEPT !.recv = v.exc]
         ELSE IF ~v.val THEN K
         ELSE IF p.val["type"] = INVITE
              THEN IF ~Hashable(p.val["room"]) THEN [K EXCEPT !.recv = "TypeError"]
                   ELSE [K EXCEPT !.pending_inv = @ \cup {p.val["room"]}]
         ELSE K

(* The lines the user types.                                               *)
Lines ==
    {<<>>, <<"hello">>, <<"hello", " ", "all">>, <<" ", "hello">>,
     <<"exit">>, <<" ", "Exit", " ">>, <<"END">>,
     <<"qqq">>, <<"QQQ">>, <<"/", "quit">>, <<"/", "Quit">>,
     <<"/", "quit", " ">>, <<" ", "qqq">>,
     <<" ", "/", "create", " ", "x">>,
     <<"/", "create", " ", "x">>, <<"/", "Create", " ", "y">>,
     <<"/", "create">>, <<"/", "create", " ", "x", " ", "y">>,
     <<"/", "create", " ", Quote, Quote>>, <<"/", "create", " ", Quote, "x">>,
     <<"/", "invite", " ", "x", " ", "Bob">>, <<"/", "invite", " ", "x">>,
     <<"/", "accept", " ", "x">>, <<"/", "accept", " ", "y">>,
     <<"/", "accept">>,
     <<"/", "room", " ", "x", " ", "hi">>,
     <<"/", "room", " ", "y", " ", "hi", " ", " ", "there">>,
     <<"/", "room", " ", "x">>,
     <<"/", "help">>, <<"/", "nope">>}

(* The datagrams that reach the client's socket.                           *)
ClientInbound ==
    {make_packet(SYSTEM_MSG, <<<<"text", "Room 'x' created">>>>),
     make_packet(SYSTEM_MSG, <<<<"text", "Joined room 'x'">>>>),
     make_packet(SYSTEM_MSG, <<<<"text", "No invite for that room">>>>),
     MsgPkt("Bob", "hi"),
     InvitePkt("x", "Bob", "Alice"), InvitePkt("y", "Bob", "Alice"),
     InvitePkt(JsonList, "Bob", "Alice"),
     RoomMsgPkt("x", "Bob", "hi"),
     make_packet(INVITE, <<<<"from", "Bob">>, <<"to", "Alice">>>>),
     make_packet("ping", <<>>),
     BadJson, BadUtf8, JsonValue}

(* The name the user gives at the prompt.                                  *)
Names == {"Alice"}

NoLine == <<>>
NoData == [kind |-> "none", pairs |-> <<>>]

(* UDPChatClient.__init__                                                  *)
NewClient ==
    [main |-> "new", recv |-> "new", name |-> "",
     rooms |-> {}, pending_inv |-> {}, current_room |-> None,
     running |-> TRUE, sock_open |-> TRUE, left |-> FALSE,
     out |-> <<>>, by |-> "init", line |-> NoLine, data |-> NoData]

ClientInit ==
    /\ ServerInit
    /\ dequeued = NotCounted
    /\ tally = NoTally
    /\ codec = NoCodec
    /\ client = NewClient
    /\ net = NoNet

(* The fields every step of the client writes: the packets it handed to    *)
(* the socket, and which thread read what.                                 *)
Began(K, by, line, data) ==
    [K EXCEPT !.out = <<>>, !.by = by, !.line = line, !.data = data]

(* start(): the finally block.                                             *)
Closed(K) == [K EXCEPT !.main = "done", !.running = FALSE, !.sock_open = FALSE]

(* start() up to the input loop: the name is read, join is sent and the    *)
(* receive thread is started.                                              *)
ClientStart ==
    /\ client.main = "new"
    /\ \E name \in Names, fail \in BOOLEAN :
         client' = [Client_send([Began(client, "start", NoLine, NoData)
                                    EXCEPT !.name = name],
                                make_packet(JOIN, <<<<"name", name>>>>), fail)
                       EXCEPT !.main = "input", !.recv = "loop"]
    /\ net' = Uplink(net, client'.out)
    /\ UNCHANGED <<server_vars, codec>>

(* start(): one line of input goes through the loop body; after a break    *)
(* the finally block runs.                                                 *)
ClientInputOf(lines) ==
    /\ client.main = "input"
    /\ client.running
    /\ \E line \in lines, fail \in BOOLEAN :
         \E K \in {_input_line(Began(client, "input", line, NoData), line, fail)} :
             client' = IF K.left THEN Closed(K) ELSE K
    /\ net' = Uplink(net, client'.out)
    /\ UNCHANGED <<server_vars, codec>>

ClientInput == ClientInputOf(Lines)

(* start(): end of input or Ctrl-C at the prompt, or the loop condition    *)
(* finds the flag cleared; the finally block runs.                         *)
ClientLeave ==
    /\ client.main = "input"
    /\ client' = Closed(Began(client, "leave", NoLine, NoData))
    /\ UNCHANGED <<server_vars, codec, net>>

(* _recv_loop: recvfrom() returned a datagram.  The thread was waiting in  *)
(* recvfrom, so it handles the datagram even if the flag has been cleared  *)
(* meanwhile, and then finds the loop condition false.                     *)
ClientRecvOf(data) ==
    /\ client.recv = "loop"
    /\ client.sock_open
    /\ \E K \in {Client_recv_loop(Began(client, "recv", NoLine, data), data)} :
         client' = IF K.recv = "loop" /\ ~K.running
                   THEN [K EXCEPT !.recv = "exited"]
                   ELSE K
    /\ UNCHANGED <<server_vars, codec>>

ClientRecv ==
    /\ \E data \in ClientInbound : ClientRecvOf(data)
    /\ UNCHANGED net

(* _recv_loop: recvfrom() raises OSError on the closed socket.             *)
ClientRecvExit ==
    /\ client.recv = "loop"
    /\ ~client.sock_open
    /\ client' = [Began(client, "recv_exit", NoLine, NoData) EXCEPT !.recv = "exited"]
    /\ UNCHANGED <<server_vars, codec, net>>

NextClient ==
    \/ ClientStart
    \/ ClientInput
    \/ ClientLeave
    \/ ClientRecv
    \/ ClientRecvExit

SpecClient == ClientInit /\ [][NextClient]_vars

----------------------------------------------------------------------------
(* The client at endpoint A talking to the server over UDP, with a second  *)
(* client, Bob at B, whose datagrams are drawn from PeerTraffic.           *)

SystemLines ==
    {<<"/", "create", " ", "x">>, <<"/", "accept", " ", "x">>}

PeerTraffic ==
    {<<JoinPkt("Bob"), "B">>, <<CreatePkt("Bob", "x"), "B">>,
     <<InvitePkt("x", "Bob", "Alice"), "B">>}

SystemInit ==
    /\ ServerInit
    /\ dequeued = NotCounted
    /\ tally = NoTally
    /\ codec = NoCodec
    /\ client = NewClient
    /\ net = [on |-> TRUE, up |-> <<>>, down |-> <<>>]

(* _recv_loop of the server: recvfrom() returns a datagram of the client.  *)
RecvNet ==
    /\ recv_thread = "loop"
    /\ running
    /\ sock_open
    /\ Len(recv_q) < MaxQueue
    /\ net.up # <<>>
    /\ recv_q' = put(recv_q, <<Head(net.up).pkt, ClientAddr>>)
    /\ net' = [net EXCEPT !.up = Tail(@)]
    /\ UNCHANGED <<clients, rooms, pending_inv, running, sock_open, router,
                   recv_thread, sent, last, invited, script_pos, dequeued, tally,
                   
                   codec, client>>

(* _recv_loop of the client: recvfrom() returns a datagram of the server.  *)
ClientRecvNet ==
    /\ net.down # <<>>
    /\ ClientRecvOf(Head(net.down).pkt)
    /\ net' = [net EXCEPT !.down = Tail(@)]

(* UDP: a datagram in flight is lost.                                      *)
Lose ==
    /\ \/ net.up # <<>> /\ net' = [net EXCEPT !.up = Tail(@)]
       \/ net.down # <<>> /\ net' = [net EXCEPT !.down = Tail(@)]
    /\ UNCHANGED <<server_vars, codec, client>>

NextSystem ==
    \/ ClientStart
    \/ ClientInputOf(SystemLines)
    \/ ClientLeave
    \/ ClientRecvNet
    \/ ClientRecvExit
    \/ RecvNet
    \/ Recv(PeerTraffic)
    \/ RecvExit
    \/ Process({ClientAddr})
    \/ Lose

SpecSystem == SystemInit /\ [][NextSystem]_vars

----------------------------------------------------------------------------
Server(inbound) == Recv(inbound) \/ RecvExit \/ Process(Peers(inbound))

(* Spec and SpecDelivery follow the server while nobody interrupts it;     *)
(* SpecLobby and SpecWire add the operator's Ctrl-C.                       *)
Next      == Server(RoomTraffic)
NextLobby == Server(LobbyTraffic) \/ Shutdown
NextWire  == Server(WireTraffic) \/ Shutdown
NextDelivery == Server(DeliveryTraffic)
NextSharedName == Server(SharedNameTraffic)
NextIdentity == Server(IdentityTraffic)
NextPending == Server(PendingTraffic)
NextQueue ==
    \/ RecvUpTo(QueueTraffic, MaxBacklog)
    \/ RecvExit
    \/ Process(Peers(QueueTraffic))
    \/ Shutdown

Spec      == Init /\ [][Next]_vars
SpecLobby == Init /\ [][NextLobby]_vars
SpecWire  == Init /\ [][NextWire]_vars
SpecDelivery == Init /\ [][NextDelivery]_vars

SpecSharedName == Init /\ [][NextSharedName]_vars
SpecIdentity == Init /\ [][NextIdentity]_vars

(* The pending-invitation study keeps the tally of invites.                *)
PendingInit ==
    /\ ServerInit
    /\ dequeued = NotCounted
    /\ tally = NoInvites
    /\ codec = NoCodec
    /\ client = NoClient
    /\ net = NoNet

SpecPending == PendingInit /\ [][NextPending]_vars

(* The queue study counts the dequeues, lets a backlog build up, and       *)
(* assumes that both threads keep being scheduled.                         *)
QueueInit ==
    /\ ServerInit
    /\ dequeued = 0
    /\ tally = NoTally
    /\ codec = NoCodec
    /\ client = NoClient
    /\ net = NoNet

SpecQueue ==
    /\ QueueInit
    /\ [][NextQueue]_vars
    /\ WF_vars(Process(Peers(QueueTraffic)))
    /\ WF_vars(RecvExit)

----------------------------------------------------------------------------
(* The schema study looks at each producer of packets on its own: the      *)
(* client under any input, the router under the traffic of two clients,    *)
(* and UDPChatClient._send offered any packet make_packet can build.       *)

SchemaTraffic ==
    RoomTraffic \cup {<<MsgPkt(NameAt(a), "hi"), a>> : a \in {"A", "B"}}

SchemaInit == ClientInit \/ Init \/ CodecInit

(* UDPChatClient._send of an encoded packet.                               *)
Offer ==
    /\ codec.stage = "encoded"
    /\ \E fail \in BOOLEAN :
         codec' = [stage |-> "offered", data |-> codec.data,
                   handed |-> Client_send(NewClient, codec.data, fail).out]
    /\ UNCHANGED <<server_vars, client, net>>

NextSchema ==
    \/ client.main # "none" /\ NextClient
    \/ client.main = "none" /\ codec.stage = "idle" /\ Server(SchemaTraffic)
    \/ Encode
    \/ Offer

SpecSchema == SchemaInit /\ [][NextSchema]_vars

---------------------------------------------------------------------------
(* Vocabulary of the properties.  A router step is the one step that takes *)
(* the head off the queue; In and From are the datagram it decodes and its *)
(* sender.                                                                 *)

RouterStep == router = "loop" /\ recv_q # <<>> /\ recv_q' = Tail(recv_q)

In   == parse_packet(Head(recv_q)[1])
From == Head(recv_q)[2]

(* The record of datagram d meets the schema table for its declared type.  *)
Conforms(d) ==
    LET p == parse_packet(d) IN
    /\ p.isdict
    /\ "type" \in DOMAIN p.val
    /\ p.val["type"] \in DOMAIN EXPECTED_FIELDS_BY_TYPE
    /\ EXPECTED_FIELDS_BY_TYPE[p.val["type"]] \subseteq DOMAIN p.val

IsA(d, t) == Conforms(d) /\ parse_packet(d).val["type"] = t

Got(t) == IsA(Head(recv_q)[1], t)

Room == In.val["room"]

TablesUnchanged == clients' = clients /\ rooms' = rooms /\ pending_inv' = pending_inv

Without(cl, addr) == SelectSeq(cl, LAMBDA c : c.addr # addr)

Purged(rm, addr) == [r \in DOMAIN rm |-> rm[r] \ {addr}]

WithMember(rm, room, addr) == (room :> (Members(rm, room) \cup {addr})) @@ rm

InNoRoom(rm, addr) == \A r \in DOMAIN rm : addr \notin rm[r]

(* The bag holds exactly one send: a sys packet with this text, to addr.   *)
OneSys(bag, addr, text) ==
    /\ BagCardinality(bag) = 1
    /\ \E m \in BagToSet(bag) :
           /\ m.addr = addr
           /\ Field(m, "type") = SYSTEM_MSG
           /\ Field(m, "text") = text

SomeLost(bag) == \E m \in BagToSet(bag) : ~m.ok

JoinedText(room) == "Joined room '" \o room \o "'"

---------------------------------------------------------------------------
(* C1 as stated: accept_invite{room R} from E with R pending puts E in    *)
(* Room[R], clears the pending entry and sends one sys acknowledgement to  *)
(* E; with R not pending the three tables are unchanged and one sys error  *)
(* goes to E.                                                              *)
C1_AsStated ==
    [][RouterStep /\ Got(ACCEPT_INV) =>
         IF Room \in Pending(pending_inv, From)
         THEN /\ From \in Members(rooms', Room)
              /\ Room \notin Pending(pending_inv', From)
              /\ OneSys(sent', From, JoinedText(Room))
         ELSE /\ TablesUnchanged
              /\ OneSys(sent', From, "No invite for that room")]_vars

(* C1: accept_invite{room R} from E.  With R pending for E: R leaves the   *)
(* pending set, one sys acknowledgement is sent to E, and E is a member of *)
(* R afterwards, unless that send fails while E is registered: then E is   *)
(* disconnected (out of the registry and of every room).  With R not       *)
(* pending: one sys error is sent to E, pending invitations are unchanged, *)
(* and registry and rooms are unchanged unless that send fails while E is  *)
(* registered, which disconnects E.                                        *)
C1_Accept ==
    [][RouterStep /\ Got(ACCEPT_INV) =>
         LET dropped == SomeLost(sent') /\ Registered(clients, From) IN
         IF Room \in Pending(pending_inv, From)
         THEN /\ Room \notin Pending(pending_inv', From)
              /\ \A e \in DOMAIN pending_inv :
                     pending_inv'[e] = pending_inv[e] \ (IF e = From THEN {Room} ELSE {})
              /\ OneSys(sent', From, JoinedText(Room))
              /\ IF dropped
                 THEN /\ clients' = Without(clients, From)
                      /\ rooms' = Purged(WithMember(rooms, Room, From), From)
                 ELSE /\ clients' = clients
                      /\ rooms' = WithMember(rooms, Room, From)
                      /\ From \in rooms'[Room]
         ELSE /\ pending_inv' = pending_inv
              /\ OneSys(sent', From, "No invite for that room")
              /\ IF dropped
                 THEN clients' = Without(clients, From) /\ rooms' = Purged(rooms, From)
                 ELSE clients' = clients /\ rooms' = rooms]_vars

(* An accept_invite that found its invitation, was acknowledged, and left  *)
(* the sender a member with nothing pending.                               *)
C1_Witness ==
    /\ last # <<>>
    /\ IsA(last[1], ACCEPT_INV)
    /\ OneSys(sent, last[2], JoinedText("x"))
    /\ ~SomeLost(sent)
    /\ last[2] \in Members(rooms, "x")
    /\ Pending(pending_inv, last[2]) = {}

(* C2: an accept_invite for R from E is acknowledged exactly when an       *)
(* invite of R was routed to E earlier and E has not accepted it since,    *)
(* whatever quits, re-joins and failed sends came in between.              *)
C2_AcceptIffInvited ==
    [][RouterStep /\ Got(ACCEPT_INV) =>
         ((\E m \in BagToSet(sent') :
               m.addr = From /\ Field(m, "text") = JoinedText(Room))
          <=> Room \in invited[From])]_vars

(* An endpoint that left the registry after it was invited and still had   *)
(* its accept_invite acknowledged.                                         *)
C2_Witness ==
    /\ last # <<>>
    /\ IsA(last[1], ACCEPT_INV)
    /\ OneSys(sent, last[2], JoinedText("x"))
    /\ ~SomeLost(sent)
    /\ ~Registered(clients, last[2])
    /\ invited[last[2]] = {}

(* C3 as stated: room_msg from a non-member sends one sys error to the     *)
(* sender, no room_msg to anyone, and leaves the three tables unchanged.   *)
C3_AsStated ==
    [][RouterStep /\ Got(ROOM_MSG) /\ From \notin Members(rooms, Room) =>
         /\ OneSys(sent', From, "You are not in that room")
         /\ TablesUnchanged]_vars

(* C3: room_msg for R from E, E not a member of R (or R unknown): exactly  *)
(* one packet is sent, a sys error to E, so no room_msg goes to anyone;    *)
(* pending invitations are unchanged; registry and rooms are unchanged     *)
(* unless the send of that error fails while E is registered, which        *)
(* disconnects E.                                                          *)
C3_RoomMsgRejected ==
    [][RouterStep /\ Got(ROOM_MSG) /\ From \notin Members(rooms, Room) =>
         /\ OneSys(sent', From, "You are not in that room")
         /\ pending_inv' = pending_inv
         /\ IF SomeLost(sent') /\ Registered(clients, From)
            THEN clients' = Without(clients, From) /\ rooms' = Purged(rooms, From)
            ELSE clients' = clients /\ rooms' = rooms]_vars

(* A rejected room_msg for a room that exists and has a member.            *)
C3_Witness ==
    /\ last # <<>>
    /\ IsA(last[1], ROOM_MSG)
    /\ OneSys(sent, last[2], "You are not in that room")
    /\ Members(rooms, "x") # {}
    /\ last[2] \notin Members(rooms, "x")

(* One send to a in the bag, handed to the socket once.                    *)
ExactlyOnceTo(bag, a) ==
    LET to == {m \in BagToSet(bag) : m.addr = a} IN
    Cardinality(to) = 1 /\ \A m \in to : CopiesIn(m, bag) = 1

Lost(bag) == {m.addr : m \in {n \in BagToSet(bag) : ~n.ok}}

RegisteredAddrs(cl) == {cl[i].addr : i \in DOMAIN cl}

(* C4 as stated: membership of R is all room_msg{room R, text} from E      *)
(* needs: every other member of R is sent room_msg{room, from, text}       *)
(* exactly once, E is sent nothing, and when no send fails no table        *)
(* changes.                                                                *)
C4_AsStated ==
    [][RouterStep /\ Got(ROOM_MSG) /\ From \in Members(rooms, Room) =>
         /\ \A a \in rooms[Room] \ {From} :
                /\ ExactlyOnceTo(sent', a)
                /\ \A m \in BagToSet(sent') :
                       /\ Field(m, "type") = ROOM_MSG
                       /\ Field(m, "room") = Room
                       /\ Field(m, "text") = In.val["text"]
                       /\ Registered(clients, From) =>
                              Field(m, "from") = NameOf(clients, From)
         /\ \A m \in BagToSet(sent') : m.addr \in rooms[Room] \ {From}
         /\ ~SomeLost(sent') => TablesUnchanged]_vars

(* C5 as stated: create_room{room R} from any endpoint E, registered or    *)
(* not, leaves E a member of Room[R], sends a sys acknowledgement to E,    *)
(* and the router keeps running.                                           *)
C5_AsStated ==
    [][RouterStep /\ Got(CREATE_ROOM) =>
         /\ From \in Members(rooms', Room)
         /\ OneSys(sent', From, "Room '" \o Room \o "' created")
         /\ router' = "loop"]_vars

(* C6 as stated: whatever the datagram and whoever sent it, the router     *)
(* loop is still running after it has processed it.                        *)
C6_AsStated == [][RouterStep => router' = "loop"]_vars

(* Bytes that do not decode to a record, or a record without a type or     *)
(* without a field its declared type requires.                             *)
Malformed(d) ==
    LET p == parse_packet(d) IN
    \/ ~p.isdict
    \/ "type" \notin DOMAIN p.val
    \/ /\ p.val["type"] \in DOMAIN EXPECTED_FIELDS_BY_TYPE
       /\ ~(EXPECTED_FIELDS_BY_TYPE[p.val["type"]] \subseteq DOMAIN p.val)

(* C7: a malformed datagram changes none of registry, rooms and pending    *)
(* invitations, and no packet is sent to anyone.                           *)
C7_MalformedNoEffect ==
    [][RouterStep /\ Malformed(Head(recv_q)[1]) =>
         TablesUnchanged /\ sent' = EmptyBag]_vars

(* A record that lacks a required field was dropped by a router that has   *)
(* a client, a room and a pending invitation to lose.                      *)
C7_Witness ==
    /\ last # <<>>
    /\ Malformed(last[1])
    /\ parse_packet(last[1]).isdict
    /\ router = "loop"
    /\ clients # <<>>
    /\ Members(rooms, "x") # {}
    /\ \E e \in DOMAIN pending_inv : pending_inv[e] # {}

(* C8 as stated: after quit from E, E is not in the registry, E is in no   *)
(* room's member set, and nothing was sent.                                *)
C8_AsStated ==
    [][RouterStep /\ Got(QUIT) =>
         /\ ~Registered(clients', From)
         /\ InNoRoom(rooms', From)
         /\ sent' = EmptyBag]_vars

(* C9 as stated: an endpoint a send of the last router step failed for is  *)
(* out of the registry and of every room, and that packet was handed to    *)
(* the socket once.                                                        *)
C9_AsStated ==
    \A m \in BagToSet(sent) :
        ~m.ok => /\ ~Registered(clients, m.addr)
                 /\ InNoRoom(rooms, m.addr)
                 /\ CopiesIn(m, sent) = 1

(* C10: a msg from a registered endpoint is handed to the socket exactly   *)
(* once for every other registered endpoint and for nobody else, whichever *)
(* of these sends fail; afterwards exactly the endpoints whose send failed *)
(* are gone from the registry, the others keep their place.                *)
C10_BroadcastSurvivesFailure ==
    [][RouterStep /\ Got(PUBLIC_MSG) /\ Registered(clients, From) =>
         LET others == RegisteredAddrs(clients) \ {From} IN
         /\ \A a \in others : ExactlyOnceTo(sent', a)
         /\ \A m \in BagToSet(sent') : m.addr \in others /\ Field(m, "type") = PUBLIC_MSG
         /\ Lost(sent') \subseteq others
         /\ clients' = SelectSeq(clients, LAMBDA c : c.addr \notin Lost(sent'))]_vars

(* A broadcast to two endpoints: one send failed, the other went out, and  *)
(* the sender and the endpoint that was reached are still registered.      *)
C10_Witness ==
    /\ last # <<>>
    /\ IsA(last[1], PUBLIC_MSG)
    /\ BagCardinality(sent) = 2
    /\ Cardinality(Lost(sent)) = 1
    /\ Len(clients) = 2
    /\ Registered(clients, last[2])
    /\ \A m \in BagToSet(sent) : m.ok <=> Registered(clients, m.addr)

(* C11: msg{text} from E.  E registered: every other registered endpoint   *)
(* is sent exactly one packet, msg{name = E's registered name, text}, E is *)
(* sent none, and when no send fails registry, rooms and pending           *)
(* invitations are unchanged.  E not registered: nothing is sent and the   *)
(* three tables are unchanged.                                             *)
C11_PublicMsg ==
    [][RouterStep /\ Got(PUBLIC_MSG) =>
         IF Registered(clients, From)
         THEN LET others == RegisteredAddrs(clients) \ {From} IN
              /\ \A a \in others : ExactlyOnceTo(sent', a)
              /\ \A m \in BagToSet(sent') :
                     /\ m.addr \in others
                     /\ parse_packet(m.pkt).val =
                            [type |-> PUBLIC_MSG, name |-> NameOf(clients, From),
                             text |-> In.val["text"]]
              /\ ~SomeLost(sent') => TablesUnchanged
         ELSE sent' = EmptyBag /\ TablesUnchanged]_vars

(* A msg from one of three registered endpoints reached the two others,    *)
(* every send succeeded.                                                   *)
C11_Witness ==
    /\ last # <<>>
    /\ IsA(last[1], PUBLIC_MSG)
    /\ Len(clients) = 3
    /\ Registered(clients, last[2])
    /\ BagCardinality(sent) = 2
    /\ ~SomeLost(sent)
    /\ \A m \in BagToSet(sent) : m.addr # last[2] /\ Field(m, "type") = PUBLIC_MSG

OneInfoPerEndpoint(cl) ==
    \A i, j \in DOMAIN cl : cl[i].addr = cl[j].addr => i = j

(* C12: in every reachable state the registry holds at most one ClientInfo *)
(* per endpoint; right after join{name N} from E the registry maps E to a  *)
(* ClientInfo with name N, rooms and pending invitations are untouched,    *)
(* and when E was registered already only the name of its entry changed.   *)
C12_Join ==
    /\ [] OneInfoPerEndpoint(clients)
    /\ [][RouterStep /\ Got(JOIN) =>
            /\ Registered(clients', From)
            /\ NameOf(clients', From) = In.val["name"]
            /\ rooms' = rooms
            /\ pending_inv' = pending_inv
            /\ sent' = EmptyBag
            /\ IF Registered(clients, From)
               THEN clients' = [clients EXCEPT
                                   ![IndexOf(clients, From)].name = In.val["name"]]
               ELSE clients' = Append(clients, [addr |-> From,
                                                name |-> In.val["name"]])]_vars

(* Alice, a member of x with an invitation to x pending, has re-joined as  *)
(* Al: one entry, the new name, room and invitation still there.           *)
C12_Witness ==
    /\ last = <<JoinPkt("Al"), "A">>
    /\ clients = <<[addr |-> "A", name |-> "Al"]>>
    /\ "A" \in Members(rooms, "x")
    /\ Pending(pending_inv, "A") = {"x"}
    /\ sent = EmptyBag

(* The endpoint an invite to this name resolves to: the first registry     *)
(* entry, in insertion order, that carries the name.                       *)
Resolves(cl, name) == \E i \in DOMAIN cl : cl[i].name = name

Resolved(cl, name) ==
    cl[CHOOSE i \in DOMAIN cl :
          /\ cl[i].name = name
          /\ \A j \in DOMAIN cl : cl[j].name = name => i <= j].addr

(* C13 as stated, for the steps in which no send fails: invite{room R, to  *)
(* T} from a member E of R, T the name of a registered endpoint X, adds R  *)
(* to PendingInvitation[X], sends X exactly one packet, invite{room R,     *)
(* from = E's name}, sends E nothing, and leaves room membership as it     *)
(* was.                                                                    *)
C13_AsStated ==
    [][RouterStep /\ Got(INVITE) /\ From \in Members(rooms, Room)
          /\ Resolves(clients, In.val["to"]) /\ ~SomeLost(sent') =>
         LET X == Resolved(clients, In.val["to"]) IN
         /\ Room \in Pending(pending_inv', X)
         /\ BagCardinality(sent') = 1
         /\ \E m \in BagToSet(sent') :
                /\ m.addr = X
                /\ Field(m, "type") = INVITE
                /\ Field(m, "room") = Room
                /\ Registered(clients, From) =>
                       Field(m, "from") = NameOf(clients, From)
         /\ rooms' = rooms]_vars

(* The invite fails: E is not a member of R (or R does not exist), or no   *)
(* registered endpoint has the name T.                                     *)
InviteFails ==
    \/ From \notin Members(rooms, Room)
    \/ ~Resolves(clients, In.val["to"])

InviteError ==
    IF From \notin Members(rooms, Room)
    THEN "You are not in that room"
    ELSE "User not found"

(* C14 as stated: a failing invite sends exactly one packet, a sys error   *)
(* to E, and leaves registry, rooms and pending invitations unchanged.     *)
C14_AsStated ==
    [][RouterStep /\ Got(INVITE) /\ InviteFails =>
         /\ OneSys(sent', From, InviteError)
         /\ TablesUnchanged]_vars

(* C14: invite{room R, to T} from E fails when E is not a member of R (R   *)
(* unknown included) or no registered endpoint has name T: exactly one     *)
(* packet is sent, a sys error to E, so no invite packet goes to anyone;   *)
(* pending invitations are unchanged; registry and rooms are unchanged     *)
(* unless the send of that error fails while E is registered, which        *)
(* disconnects E.                                                          *)
C14_InviteRejected ==
    [][RouterStep /\ Got(INVITE) /\ InviteFails =>
         /\ OneSys(sent', From, InviteError)
         /\ pending_inv' = pending_inv
         /\ router' = "loop"
         /\ IF SomeLost(sent') /\ Registered(clients, From)
            THEN clients' = Without(clients, From) /\ rooms' = Purged(rooms, From)
            ELSE clients' = clients /\ rooms' = rooms]_vars

(* A registered endpoint outside the room invited a registered endpoint    *)
(* and was turned down: nothing is pending for anyone.                     *)
C14_Witness ==
    /\ last # <<>>
    /\ IsA(last[1], INVITE)
    /\ OneSys(sent, last[2], "You are not in that room")
    /\ Len(clients) = 2
    /\ Members(rooms, "x") = {Other(last[2])}
    /\ \A e \in DOMAIN pending_inv : pending_inv[e] = {}

(* The router step before this one processed a create_room for the room    *)
(* this step's packet names.                                               *)
AfterCreateOfSameRoom ==
    /\ last # <<>>
    /\ IsA(last[1], CREATE_ROOM)
    /\ parse_packet(last[1]).val["room"] = Room

Received(addr) == {parse_packet(m.pkt).val : m \in {n \in BagToSet(sent) : n.addr = addr}}

(* C16: the router has processed, in this order and with every send        *)
(* succeeding, A join Alice, B join Bob, A create_room x, A invite{x, to   *)
(* Bob}, B accept_invite x, A room_msg{x, hi}.  From the create_room on A  *)
(* is a member of x; the invite step sends B invite{room x, from Alice};   *)
(* from the accept_invite on B is a member of x; the room_msg step sends   *)
(* exactly one packet, room_msg{room x, from Alice, text hi} to B, and     *)
(* nothing to A.                                                           *)
C16_Scenario ==
    /\ script_pos \in 3..6 => "A" \in Members(rooms, "x")
    /\ script_pos = 4 =>
           /\ \E r \in Received("B") :
                  r["type"] = INVITE /\ r["room"] = "x" /\ r["from"] = "Alice"
           /\ BagCardinality(sent) = 1
    /\ script_pos \in 5..6 => "B" \in Members(rooms, "x")
    /\ script_pos = 6 =>
           /\ Received("B") = {[type |-> ROOM_MSG, room |-> "x",
                                from |-> "Alice", text |-> "hi"]}
           /\ Received("A") = {}
           /\ BagCardinality(sent) = 1
           /\ router = "loop"

(* The whole walk-through has been processed.                              *)
C16_Witness ==
    /\ script_pos = Len(Script)
    /\ last = Script[Len(Script)]
    /\ rooms = [r \in {"x"} |-> {"A", "B"}]

(* C17: a room name present in the room table is present after every step, *)
(* whatever packet is processed and whichever sends fail, also when the    *)
(* room has lost its last member.                                          *)
C17_RoomsPersist == [][DOMAIN rooms \subseteq DOMAIN rooms']_vars

(* Room x is in the table with no member, after the quit of its last one.  *)
C17_Witness ==
    /\ "x" \in DOMAIN rooms
    /\ rooms["x"] = {}
    /\ last # <<>>
    /\ IsA(last[1], QUIT)
    /\ clients # <<>>

(* C18: an endpoint leaves the registry only in a router step that either  *)
(* processes a quit from that endpoint or has a send to that endpoint      *)
(* fail.                                                                   *)
C18_RemovedOnlyByQuitOrLoss ==
    [][\A e \in Endpoints :
          Registered(clients, e) /\ ~Registered(clients', e) =>
              /\ RouterStep
              /\ \/ Got(QUIT) /\ From = e
                 \/ e \in Lost(sent')]_vars

(* An invite from one endpoint was lost on its way to the other, which is  *)
(* gone from the registry; the inviter is still registered.                *)
C18_Witness ==
    /\ last # <<>>
    /\ IsA(last[1], INVITE)
    /\ Lost(sent) = {Other(last[2])}
    /\ \E m \in BagToSet(sent) : Field(m, "type") = INVITE
    /\ RegisteredAddrs(clients) = {last[2]}

(* C19: a room_msg for R from a registered member E is handed to the       *)
(* socket exactly once for every member R had when the delivery began,     *)
(* except E, and for nobody else, whichever of these sends fail; the       *)
(* registered members whose send failed are purged from R, the others      *)
(* stay, and the router keeps running.                                     *)
C19_RoomDeliverySnapshot ==
    [][RouterStep /\ Got(ROOM_MSG) /\ From \in Members(rooms, Room)
          /\ Registered(clients, From) =>
         LET snapshot == rooms[Room] \ {From} IN
         /\ \A a \in snapshot : ExactlyOnceTo(sent', a)
         /\ \A m \in BagToSet(sent') :
                m.addr \in snapshot /\ Field(m, "type") = ROOM_MSG
         /\ BagCardinality(sent') = Cardinality(snapshot)
         /\ rooms'[Room] = rooms[Room] \ (Lost(sent') \cap RegisteredAddrs(clients))
         /\ router' = "loop"]_vars

(* A room_msg in a room of three: one of the two sends failed and that     *)
(* member was purged, the other send went out all the same.                *)
C19_Witness ==
    /\ last # <<>>
    /\ IsA(last[1], ROOM_MSG)
    /\ BagCardinality(sent) = 2
    /\ Cardinality(Lost(sent)) = 1
    /\ \A m \in BagToSet(sent) : Field(m, "type") = ROOM_MSG
    /\ Cardinality(Members(rooms, "x")) = 2
    /\ last[2] \in Members(rooms, "x")
    /\ Lost(sent) \cap Members(rooms, "x") = {}

(* C20 as stated: for every record the router is about to validate (each   *)
(* queued datagram that decodes to a JSON object), _validate_packet        *)
(* returns, and returns true exactly when the record has a type, the type  *)
(* is one of the eight of the schema table, and the record's fields        *)
(* include the fields that type requires.                                  *)
C20_AsStated ==
    \A i \in DOMAIN recv_q :
        LET p == parse_packet(recv_q[i][1]) IN
        p.isdict =>
            _validate_packet(p) = [exc |-> "none", val |-> Conforms(recv_q[i][1])]

(* The record a payload stands for once its type field is set to t.        *)
WithType(payload, t) ==
    [k \in {payload[i][1] : i \in DOMAIN payload} \cup {"type"} |->
        IF k = "type" THEN t ELSE json_loads(payload)[k]]

(* C21 as stated: make_packet accepts every type and payload, parse_packet *)
(* of its result is the payload with type set to that type, and            *)
(* parse_packet of bytes that are not a JSON document raises instead of    *)
(* returning.                                                              *)
C21_AsStated ==
    /\ codec.stage # "raised"
    /\ codec.stage = "decoded" /\ codec.input.stage = "encoded" =>
           /\ codec.result.exc = "none"
           /\ codec.result.isdict
           /\ codec.result.val = WithType(codec.input.payload, codec.input.ptype)
    /\ codec.stage = "decoded" /\ codec.input.stage = "bytes"
          /\ codec.input.data.kind \in {"bad_json", "bad_utf8"} =>
           codec.result.exc # "none"

(* The types _process_loop dispatches to a handler.                        *)
Dispatched == {JOIN, PUBLIC_MSG, QUIT, CREATE_ROOM, INVITE, ACCEPT_INV, ROOM_MSG}

(* A record whose declared type has no handler: an unknown type, or sys.   *)
Unhandled(d) ==
    LET p == parse_packet(d) IN
    /\ p.isdict
    /\ "type" \in DOMAIN p.val
    /\ p.val["type"] \notin Dispatched

(* C22: a packet whose type has no handler, an unknown type or a sys       *)
(* packet, valid or not, causes no send and leaves registry, rooms and     *)
(* pending invitations unchanged; when the type is a string the router     *)
(* goes on to the next datagram.                                           *)
C22_UnhandledDropped ==
    [][RouterStep /\ Unhandled(Head(recv_q)[1]) =>
         /\ sent' = EmptyBag
         /\ TablesUnchanged
         /\ Hashable(In.val["type"]) => router' = "loop"]_vars

(* A sys packet that passes validation was dropped by a router that has a  *)
(* client, a room and a pending invitation.                                *)
C22_Witness ==
    /\ last # <<>>
    /\ IsA(last[1], SYSTEM_MSG)
    /\ router = "loop"
    /\ sent = EmptyBag
    /\ Registered(clients, last[2])
    /\ Members(rooms, "x") # {}
    /\ \E e \in DOMAIN pending_inv : pending_inv[e] # {}

(* The datagram with ticket t is in the queue: tickets are handed out in   *)
(* the order of arrival, modulo Tickets, and the head holds the ticket     *)
(* that equals the number of dequeues so far.                              *)
Queued(t) ==
    \E i \in 1..Len(recv_q) : (dequeued + i - 1) % Tickets = t

ItemOf(t) ==
    recv_q[CHOOSE i \in 1..Len(recv_q) : (dequeued + i - 1) % Tickets = t]

Dequeue ==
    /\ recv_q # <<>>
    /\ recv_q' = Tail(recv_q)
    /\ last' = Head(recv_q)
    /\ dequeued' = (dequeued + 1) % Tickets

(* C23: the queue changes only by an append at the back (the receive loop) *)
(* or by the removal of its head, which is the datagram the router then    *)
(* processes; the router processes nothing else.  With both loops          *)
(* scheduled, every queued datagram is dequeued, and it is the one         *)
(* processed at that step, unless the router has stopped.                  *)
C23_FifoLossless ==
    /\ [][recv_q' # recv_q \/ last' # last \/ dequeued' # dequeued =>
            \/ Dequeue
            \/ /\ \E m \in QueueTraffic : recv_q' = Append(recv_q, m)
               /\ last' = last
               /\ dequeued' = dequeued]_vars
    /\ \A t \in 0..(Tickets - 1) : \A m \in QueueTraffic :
           (Queued(t) /\ ItemOf(t) = m)
               ~> (\/ dequeued = (t + 1) % Tickets /\ last = m
                   \/ router # "loop")

(* Two different datagrams wait in the queue behind one that has been      *)
(* processed.                                                              *)
C23_Witness ==
    /\ Len(recv_q) = 2
    /\ recv_q[1] # recv_q[2]
    /\ last # <<>>
    /\ last # recv_q[1]
    /\ dequeued = 1
    /\ router = "loop"

(* A step of the receive loop: it enqueues a datagram or it exits.         *)
ReceiveStep == Len(recv_q') > Len(recv_q) \/ recv_thread' # recv_thread

(* C24: a step of the receive loop appends one datagram to the queue or    *)
(* ends the loop, and changes neither the registry, the rooms, the pending *)
(* invitations nor the packets sent; the three tables change only in       *)
(* steps of the router.                                                    *)
C24_ReceiveOnlyEnqueues ==
    [][/\ ReceiveStep =>
            /\ TablesUnchanged
            /\ sent' = sent
            /\ \/ recv_q' = recv_q
               \/ recv_thread' = recv_thread
                    /\ \E m \in RoomTraffic : recv_q' = Append(recv_q, m)
       /\ ~TablesUnchanged => RouterStep /\ ~ReceiveStep]_vars

(* A datagram is enqueued while the registry, the rooms and the pending    *)
(* invitations all hold entries and the last router step sent a packet.    *)
C24_Witness ==
    /\ recv_q # <<>>
    /\ clients # <<>>
    /\ \E r \in DOMAIN rooms : rooms[r] # {}
    /\ \E a \in DOMAIN pending_inv : pending_inv[a] # {}
    /\ sent # EmptyBag
    /\ recv_thread = "loop"

Namesakes(cl, name) == {cl[i].addr : i \in {j \in DOMAIN cl : cl[j].name = name}}

(* C26: an invite{room R, to T} from a member of R, with T the name of at  *)
(* least one registered endpoint, records R as pending for the first       *)
(* endpoint in registry order whose name is T and for no other endpoint,   *)
(* and hands the socket exactly one packet, the invite, addressed to that  *)
(* endpoint.                                                               *)
C26_InviteToFirstNamesake ==
    [][RouterStep /\ Got(INVITE) /\ ~InviteFails =>
         LET X == Resolved(clients, In.val["to"]) IN
         /\ NameOf(clients, X) = In.val["to"]
         /\ \A i \in DOMAIN clients :
                clients[i].name = In.val["to"] => IndexOf(clients, X) <= i
         /\ Pending(pending_inv', X) = Pending(pending_inv, X) \cup {Room}
         /\ \A a \in Endpoints \ {X} :
                Pending(pending_inv', a) = Pending(pending_inv, a)
         /\ BagCardinality(sent') = 1
         /\ \A m \in BagToSet(sent') :
                /\ m.addr = X
                /\ Field(m, "type") = INVITE
                /\ Field(m, "room") = Room
                /\ Field(m, "to") = In.val["to"]]_vars

(* C is registered before A, both as Alice; B invited "Alice" and the one  *)
(* invite went to C, so x is pending for C and for nobody else.            *)
C26_Witness ==
    /\ last # <<>>
    /\ IsA(last[1], INVITE)
    /\ last[2] = "B"
    /\ Namesakes(clients, "Alice") = {"A", "C"}
    /\ IndexOf(clients, "C") < IndexOf(clients, "A")
    /\ BagCardinality(sent) = 1
    /\ \A m \in BagToSet(sent) : m.addr = "C" /\ Field(m, "type") = INVITE
    /\ Pending(pending_inv, "C") = {"x"}
    /\ Pending(pending_inv, "A") = {}

(* Vocabulary for the client: a step of the input loop that read line L,   *)
(* a step of the receive loop that read a datagram, and the packets a step *)
(* handed to the socket.                                                   *)
InputStep   == client.main = "input" /\ client'.by = "input"
ReceiveLoopStep == client.recv = "loop" /\ client'.by \in {"recv", "recv_exit"}
Line        == client'.line
Handed(K)   == [i \in DOMAIN K.out |-> K.out[i].pkt]

QuitAlias(L)  == Cat(lower(L)) \in {"/quit", "qqq"}
EscapeWord(L) == Cat(lower(strip(L))) \in {"exit", "end"}
PlainText(L)  == ~startswith(L, "/") /\ ~QuitAlias(L) /\ ~EscapeWord(L)

SessionUnchanged ==
    /\ client'.current_room = client.current_room
    /\ client'.rooms = client.rooms
    /\ client'.pending_inv = client.pending_inv

(* C27 as stated: with a current room set, plain text goes out as          *)
(* room_msg{room = current room, from = own name, text = line} and         *)
(* exit/end clear the current room; with none set, plain text and exit/end *)
(* go out as msg{name = own name, text = line}.                            *)
C27_AsStated ==
    [][InputStep =>
         /\ PlainText(Line) /\ client.current_room # None =>
                Handed(client') =
                    <<RoomMsgPkt(client.current_room, client.name, Cat(Line))>>
         /\ PlainText(Line) /\ client.current_room = None =>
                Handed(client') = <<MsgPkt(client.name, Cat(Line))>>
         /\ EscapeWord(Line) /\ client.current_room # None =>
                client'.current_room = None /\ Handed(client') = <<>>
         /\ EscapeWord(Line) /\ client.current_room = None =>
                /\ Handed(client') = <<MsgPkt(client.name, Cat(Line))>>
                /\ client'.current_room = None]_vars

(* The command word and the arguments of a line that shlex can split.      *)
Splits(L)  == shlex_split(L).exc = "none"
Command(L) == Cat(lower(shlex_split(L).val[1]))
Args(L)    ==
    LET words == Tail(shlex_split(L).val) IN [i \in DOMAIN words |-> Cat(words[i])]

NothingSent == Handed(client') = <<>>

(* C28: in the step that reads the line, /create R hands create_room{name, *)
(* room R} to the socket, adds R to the local rooms and makes R current;   *)
(* /accept R with R pending hands over accept_invite{name, room R}, takes  *)
(* R out of the pending set, adds it to the rooms and makes it current;    *)
(* /room R text with R in the local rooms hands over room_msg{room R,      *)
(* from, text} and changes nothing locally; /accept of a room that is not  *)
(* pending, /room for a room that is not in the local rooms, and a wrong   *)
(* number of arguments send nothing and change nothing.                    *)
C28_CommandInterpreter ==
    [][InputStep /\ startswith(Line, "/") /\ ~QuitAlias(Line) /\ Splits(Line) =>
         \A cmd \in {Command(Line)}, args \in {Args(Line)} :
         LET n == Len(args) IN
         /\ cmd = "/create" /\ n = 1 =>
                /\ Handed(client') = <<CreatePkt(client.name, args[1])>>
                /\ client'.rooms = client.rooms \cup {args[1]}
                /\ client'.current_room = args[1]
                /\ client'.pending_inv = client.pending_inv
         /\ cmd = "/accept" /\ n = 1 /\ args[1] \in client.pending_inv =>
                /\ Handed(client') = <<AcceptPkt(client.name, args[1])>>
                /\ client'.pending_inv = client.pending_inv \ {args[1]}
                /\ client'.rooms = client.rooms \cup {args[1]}
                /\ client'.current_room = args[1]
         /\ cmd = "/accept" /\ n = 1 /\ args[1] \notin client.pending_inv =>
                NothingSent /\ SessionUnchanged
         /\ cmd = "/room" /\ n >= 2 /\ args[1] \in client.rooms =>
                /\ Handed(client') =
                       <<RoomMsgPkt(args[1], client.name, JoinSpace(Tail(args)))>>
                /\ SessionUnchanged
         /\ cmd = "/room" /\ n >= 2 /\ args[1] \notin client.rooms =>
                NothingSent /\ SessionUnchanged
         /\ \/ cmd \in {"/create", "/accept"} /\ n # 1
            \/ cmd = "/room" /\ n < 2 =>
                NothingSent /\ SessionUnchanged]_vars

(* The client has just accepted the invitation to x that the receive loop  *)
(* had recorded, while it was in room y that it created itself.            *)
C28_Witness ==
    /\ client.by = "input"
    /\ startswith(client.line, "/")
    /\ Splits(client.line)
    /\ Command(client.line) = "/accept"
    /\ Handed(client) = <<AcceptPkt(client.name, "x")>>
    /\ client.rooms = {"x", "y"}
    /\ client.current_room = "x"
    /\ client.pending_inv = {}

(* The receive loop read a datagram that passes the schema for type t.     *)
Inbound(t) == ReceiveLoopStep /\ client'.by = "recv" /\ IsA(client'.data, t)

InboundRoom == parse_packet(client'.data).val["room"]

(* C29 as stated: no step of the receive loop changes the current room,    *)
(* the rooms believed joined or the pending invitations.                   *)
C29_AsStated ==
    [][ReceiveLoopStep => SessionUnchanged]_vars

(* C29: the current room and the rooms believed joined change only in      *)
(* steps of the input loop, and only the input loop takes a room out of    *)
(* the pending set; the one write of the receive loop is the addition of   *)
(* the room of a well-formed inbound invite to the pending set, and it     *)
(* hands nothing to the socket.                                            *)
C29_ReceiveLoopWritesPendingOnly ==
    [][/\ ReceiveLoopStep =>
            /\ client'.current_room = client.current_room
            /\ client'.rooms = client.rooms
            /\ client'.name = client.name
            /\ Handed(client') = <<>>
            /\ client.pending_inv \subseteq client'.pending_inv
            /\ client'.pending_inv # client.pending_inv =>
                   /\ Inbound(INVITE)
                   /\ client'.pending_inv = client.pending_inv \cup {InboundRoom}
       /\ \/ client'.current_room # client.current_room
          \/ client'.rooms # client.rooms
          \/ ~(client.pending_inv \subseteq client'.pending_inv)
          => InputStep]_vars

(* In room y, which it created, the client received the invitation to x:   *)
(* the receive loop added x to the pending set and left the rest alone.    *)
C29_Witness ==
    /\ client.by = "recv"
    /\ IsA(client.data, INVITE)
    /\ client.pending_inv = {"x"}
    /\ client.rooms = {"y"}
    /\ client.current_room = "y"

InboundText == parse_packet(client'.data).val["text"]

(* C30 as stated: an inbound invite for R puts R into the pending set, and *)
(* an inbound sys packet brings the local rooms up to date: after the      *)
(* acknowledgement of a create or of an accept of x, x is among them.      *)
C30_AsStated ==
    [][/\ Inbound(INVITE) /\ Hashable(InboundRoom) =>
            client'.pending_inv = client.pending_inv \cup {InboundRoom}
       /\ Inbound(SYSTEM_MSG)
            /\ InboundText \in {"Room 'x' created", "Joined room 'x'"} =>
            "x" \in client'.rooms]_vars

(* C30: an inbound invite for R that passes the schema puts R into the     *)
(* pending set and changes nothing else of the session; an inbound sys     *)
(* packet changes nothing of the session, whatever its text; and so does   *)
(* every other datagram.                                                   *)
C30_InvitePendingSysDisplayed ==
    [][/\ Inbound(INVITE) /\ Hashable(InboundRoom) =>
            /\ client'.pending_inv = client.pending_inv \cup {InboundRoom}
            /\ client'.rooms = client.rooms
            /\ client'.current_room = client.current_room
            /\ client'.recv = IF client.running THEN "loop" ELSE "exited"
       /\ Inbound(SYSTEM_MSG) =>
            /\ SessionUnchanged
            /\ client'.recv = IF client.running THEN "loop" ELSE "exited"
       /\ ReceiveLoopStep /\ ~Inbound(INVITE) => SessionUnchanged]_vars

(* The acknowledgement "Joined room 'x'" has arrived at a client that      *)
(* holds an invitation to x and has not accepted it: x is still pending    *)
(* and not among its rooms.                                                *)
C30_Witness ==
    /\ client.by = "recv"
    /\ IsA(client.data, SYSTEM_MSG)
    /\ parse_packet(client.data).val["text"] = "Joined room 'x'"
    /\ client.pending_inv = {"x"}
    /\ client.rooms = {}
    /\ client.recv = "loop"

(* The client believes it is in a room of which the router does not list   *)
(* it as a member.                                                         *)
Diverged ==
    \E r \in client.rooms : ClientAddr \notin Members(rooms, r)

(* A step of the input loop in the composed system, where the steps of    *)
(* the server leave the client's record as the last input step left it.    *)
TypedStep == InputStep /\ client' # client

(* C31: the client adds a room to its local rooms in the step that reads   *)
(* /create or an /accept of a pending room, and that step changes no table *)
(* of the router; the router changes its tables in steps that leave the    *)
(* client as it is; and the loss of a datagram changes neither.  So the    *)
(* two views are never updated together, and they can differ for good.     *)
C31_ViewsUpdatedApart ==
    [][/\ TypedStep /\ startswith(Line, "/") /\ Splits(Line)
            /\ \/ Command(Line) = "/create"
               \/ Command(Line) = "/accept" /\ Args(Line)[1] \in client.pending_inv
            => /\ Args(Line)[1] \in client'.rooms
               /\ TablesUnchanged
               /\ recv_q' = recv_q
       /\ ~TablesUnchanged => client' = client
       /\ client'.rooms # client.rooms => TypedStep /\ TablesUnchanged]_vars

(* The client has created x and believes it is in it; the datagram was     *)
(* lost: nothing is in flight or queued, and the router has no member A    *)
(* in x, while Bob is a member of x.                                       *)
C31_Witness ==
    /\ "x" \in client.rooms
    /\ client.current_room = "x"
    /\ client.main = "input"
    /\ net.up = <<>>
    /\ recv_q = <<>>
    /\ Members(rooms, "x") = {"B"}
    /\ Registered(clients, ClientAddr)

Passes(v) == v.exc = "none" /\ v.val

(* C32: every packet the client hands to its socket passes the router's    *)
(* _validate_packet, every packet the router hands to its socket passes    *)
(* the client's _validate_packet, and the client's _send hands a packet to *)
(* the socket exactly if the packet passes the router's _validate_packet.  *)
C32_SameSchema ==
    /\ client.main # "none" =>
           \A i \in DOMAIN client.out :
              Passes(_validate_packet(parse_packet(client.out[i].pkt)))
    /\ \A m \in BagToSet(sent) :
           Passes(Client_validate_packet(parse_packet(m.pkt)))
    /\ codec.stage = "offered" =>
           (codec.handed # <<>>
               <=> Passes(_validate_packet(parse_packet(codec.data))))

(* The client has handed invite{room x, from Alice, to Bob} to its socket. *)
C32_Witness ==
    /\ client.main = "input"
    /\ client.by = "input"
    /\ Handed(client) = <<InvitePkt("x", "Alice", "Bob")>>
    /\ Passes(_validate_packet(parse_packet(client.out[1].pkt)))

(* Endpoint e is not a member of room r before the step and is one after.  *)
Enters(e, r) == e \notin Members(rooms, r) /\ e \in Members(rooms', r)

(* C33: an endpoint enters a room only in a router step that processes its *)
(* own create_room for that room or its own accept_invite for that room    *)
(* while the room is pending for it; and a create_room for a room that     *)
(* exists, from a registered endpoint whose acknowledgement is sent,       *)
(* makes the endpoint a member, invited or not.                            *)
C33_EntersByOwnPacket ==
    [][/\ \A e \in Endpoints : \A r \in DOMAIN rooms' :
            Enters(e, r) =>
               /\ RouterStep
               /\ From = e
               /\ \/ Got(CREATE_ROOM) /\ Room = r
                  \/ /\ Got(ACCEPT_INV)
                     /\ Room = r
                     /\ r \in Pending(pending_inv, e)
       /\ RouterStep /\ Got(CREATE_ROOM) /\ Room \in DOMAIN rooms
            /\ Registered(clients, From) /\ ~SomeLost(sent')
            => From \in Members(rooms', Room)]_vars

(* Bob has just entered Alice's room x by a create_room of his own, with   *)
(* no invitation recorded for him.                                         *)
C33_Witness ==
    /\ last # <<>>
    /\ last = <<CreatePkt("Bob", "x"), "B">>
    /\ OneSys(sent, "B", "Room 'x' created")
    /\ ~SomeLost(sent)
    /\ Members(rooms, "x") = {"A", "B"}
    /\ Pending(pending_inv, "B") = {}
    /\ invited["B"] = {}

C34_FailedInviteKept ==
    /\ last # <<>>
    /\ last = <<InvitePkt("x", "Alice", "Bob"), "A">>
    /\ "B" \in Lost(sent)
    /\ ~Registered(clients, "B")
    /\ "x" \in Pending(pending_inv, "B")

C35_QuitWhileAbsent ==
    /\ last # <<>>
    /\ last = <<QuitPkt("Bob"), "B">>
    /\ ~Registered(clients, "B")
    /\ "B" \in Members(rooms, "x")

(* Every pending room is a key of the room table.                          *)
PendingRoomsExist ==
    \A e \in Endpoints : Pending(pending_inv, e) \subseteq DOMAIN rooms

(* C36: in every state every room in a pending-invitation set is a key of  *)
(* the room table, and an accept_invite of a pending room leaves the set   *)
(* of room names as it was.                                                *)
C36_PendingRoomsExist ==
    /\ []PendingRoomsExist
    /\ [][RouterStep /\ Got(ACCEPT_INV) /\ Room \in Pending(pending_inv, From)
            => DOMAIN rooms' = DOMAIN rooms]_vars

(* Bob has just accepted his invitation to x after every member of x had   *)
(* left: the room was still in the table, and he is its only member.       *)
C36_Witness ==
    /\ last # <<>>
    /\ last = <<AcceptPkt("Bob", "x"), "B">>
    /\ Registered(clients, "B")
    /\ Members(rooms, "x") = {"B"}
    /\ "x" \in DOMAIN rooms
    /\ OneSys(sent, "B", JoinedText("x"))
    /\ ~SomeLost(sent)

(* The field in which a packet of this type names its sender.              *)
ClaimField(t) == IF t = PUBLIC_MSG THEN "name" ELSE "from"

(* The values a sender may put there: a name, a JSON array, null.          *)
ClaimedValues == {"Alice", "Bob", "Eve", JsonList, None}

(* Datagram d with value v in the sender field and nothing else changed.   *)
Claiming(d, v) ==
    [d EXCEPT !.pairs = SetItem(@, ClaimField(parse_packet(d).val["type"]), v)]

(* The tables the router holds when it dequeues.                           *)
Tables ==
    [clients |-> clients, rooms |-> rooms, pending_inv |-> pending_inv,
     sent |-> EmptyBag, exc |-> "none"]

Signed == Got(PUBLIC_MSG) \/ Got(INVITE) \/ Got(ROOM_MSG)

(* C37: every msg the router sends carries in name, and every invite or    *)
(* room_msg it sends carries in from, the name the registry holds for the  *)
(* endpoint whose packet is being processed; and whatever value the        *)
(* sender field of an inbound msg, invite or room_msg holds, processing    *)
(* the packet yields the same sends, the same tables and the same          *)
(* outcome, under every pattern of send failures.                          *)
C37_IdentityFromRegistry ==
    /\ [][RouterStep =>
             \A m \in BagToSet(sent') :
                 Field(m, "type") \in {PUBLIC_MSG, INVITE, ROOM_MSG} =>
                    /\ Registered(clients, From)
                    /\ Field(m, ClaimField(Field(m, "type"))) = NameOf(clients, From)]_vars
    /\ [](router = "loop" /\ recv_q # <<>> /\ Signed =>
             \A v \in ClaimedValues : \A fail \in SUBSET Peers(IdentityTraffic) :
                 _process_loop(Tables, Claiming(Head(recv_q)[1], v), From, fail)
                    = _process_loop(Tables, Head(recv_q)[1], From, fail))

(* Alice's public message signed "Bob" has just gone out to Bob under the  *)
(* name Alice.                                                             *)
C37_Witness ==
    /\ last # <<>>
    /\ last = <<MsgPkt("Bob", "hi"), "A">>
    /\ BagCardinality(sent) = 1
    /\ \E m \in BagToSet(sent) :
           /\ m.addr = "B"
           /\ Field(m, "type") = PUBLIC_MSG
           /\ Field(m, "name") = "Alice"

(* Alice's room_msg signed "Bob" has just reached Bob with from = Alice.   *)
C37_RoomMsgSigned ==
    /\ last # <<>>
    /\ last = <<RoomMsgPkt("x", "Bob", "hi"), "A">>
    /\ \E m \in BagToSet(sent) :
           /\ m.addr = "B"
           /\ Field(m, "type") = ROOM_MSG
           /\ Field(m, "from") = "Alice"

(* Alice's invite signed "Bob" has just reached Bob with from = Alice.     *)
C37_InviteSigned ==
    /\ last # <<>>
    /\ last = <<InvitePkt("x", "Bob", "Bob"), "A">>
    /\ \E m \in BagToSet(sent) :
           /\ m.addr = "B"
           /\ Field(m, "type") = INVITE
           /\ Field(m, "from") = "Alice"

(* C38: a room is pending for an endpoint exactly when at least one invite *)
(* of it was recorded for the endpoint since the endpoint's last accepted  *)
(* accept_invite, however many there were; an accept_invite after one or   *)
(* more such invites sends the "Joined room" acknowledgement and leaves    *)
(* nothing pending for the room; and an accept_invite with no invite since *)
(* the last one is answered with the one sys error "No invite for that     *)
(* room" and changes no pending set.                                       *)
C38_PendingIsASet ==
    /\ [](\A e \in Endpoints : \A r \in RoomNames :
             r \in Pending(pending_inv, e) <=> tally[e][r].n >= 1)
    /\ [][RouterStep /\ Got(ACCEPT_INV) =>
             IF tally[From][Room].n >= 1
             THEN /\ Room \notin Pending(pending_inv', From)
                  /\ OneSys(sent', From, JoinedText(Room))
                  /\ ~(SomeLost(sent') /\ Registered(clients, From))
                        => From \in Members(rooms', Room)
             ELSE /\ OneSys(sent', From, "No invite for that room")
                  /\ pending_inv' = pending_inv
                  /\ From \notin Members(rooms, Room)
                        => From \notin Members(rooms', Room)]_vars

(* Bob, invited to x twice, accepted once and became a member; his second  *)
(* accept_invite has just been turned down.                                *)
C38_Witness ==
    /\ last # <<>>
    /\ last = <<AcceptPkt("Bob", "x"), "B">>
    /\ tally["B"]["x"] = [n |-> 0, took |-> 2]
    /\ OneSys(sent, "B", "No invite for that room")
    /\ "B" \in Members(rooms, "x")
    /\ Pending(pending_inv, "B") = {}

(* Bob has been invited to x twice and has not yet answered.               *)
C38_InvitedTwice ==
    /\ tally["B"]["x"].n = 2
    /\ Pending(pending_inv, "B") = {"x"}

(* C39: in every state of the client the current room is unset or one of   *)
(* the local rooms, and no step takes a room out of the local rooms.       *)
C39_SessionInvariant ==
    /\ [](client.main # "none" =>
             client.current_room = None \/ client.current_room \in client.rooms)
    /\ [][client.main # "none" => client.rooms \subseteq client'.rooms]_vars

(* The user, member of x and y, has just typed an escape word in a room:   *)
(* the current room is unset and both rooms are still local rooms.         *)
C39_Witness ==
    /\ client.by = "input"
    /\ client.line # NoLine
    /\ Cat(lower(strip(client.line))) \in {"exit", "end"}
    /\ client.current_room = None
    /\ client.rooms = {"x", "y"}

(* What the receive loop read in this step, decoded.                       *)
Read == parse_packet(client'.data)

ReadStep == ReceiveLoopStep /\ client'.by = "recv" /\ client.running

(* C40 as stated: a datagram that decodes but does not meet the schema is  *)
(* skipped, the receive loop goes on and nothing else changes; a datagram  *)
(* that does not decode ends the receive loop and leaves the running flag  *)
(* as it was; and once the receive loop has ended it stays ended and the   *)
(* pending invitations never change again.                                 *)
C40_AsStated ==
    [][/\ ReadStep /\ Read.exc = "none" /\ ~Conforms(client'.data) =>
            /\ client'.recv = "loop"
            /\ SessionUnchanged
            /\ client'.running
       /\ ReadStep /\ Read.exc # "none" =>
            /\ client'.recv # "loop"
            /\ SessionUnchanged
            /\ client'.running
       /\ client.recv \notin {"new", "loop"} =>
            /\ client'.recv = client.recv
            /\ client'.pending_inv \subseteq client.pending_inv]_vars

(* The part of C40 that the code meets: a JSON object without a known type *)
(* or without a required field is skipped and the loop goes on; a datagram *)
(* that does not decode ends the loop with the running flag still set; an  *)
(* ended loop stays ended.                                                 *)
C40_ObjectsSkipped ==
    [][/\ ReadStep /\ Read.exc = "none" /\ Read.isdict
            /\ ~Conforms(client'.data) =>
            /\ client'.recv = "loop"
            /\ SessionUnchanged
            /\ client'.running
       /\ ReadStep /\ Read.exc # "none" =>
            /\ client'.recv # "loop"
            /\ SessionUnchanged
            /\ client'.running
       /\ client.recv \notin {"new", "loop"} =>
            /\ client'.recv = client.recv
            /\ client'.pending_inv \subseteq client.pending_inv]_vars

(* The receive thread has died of a JSON value that is not an object,      *)
(* while the interaction loop goes on: it has just sent a public message.  *)
C40_DeadOfJsonValue ==
    /\ client.recv = "AttributeError"
    /\ client.running
    /\ client.by = "input"
    /\ Handed(client) = <<MsgPkt(client.name, "hello")>>

====
